---------------------------- MODULE Spec2Model ----------------------------
(***************************************************************************)
(* Verification model of the LawGPT retrieval-augmented chat backend:      *)
(*   - CaseRAGPipeline / LawRAGPipeline .search_by_text                    *)
(*   - the chat workflow rag_node -> llm_node -> end_node and the /chat    *)
(*     endpoint around it                                                  *)
(*   - CaseRAGPipeline.add_cases (batch ingestion)                         *)
(* External collaborators (embedding provider, vector index, language      *)
(* models, the custom inference endpoint, the file system) are modelled    *)
(* as nondeterministic outcomes of each call.                              *)
(*                                                                         *)
(* A Python string built by an f-string is a sequence of fragments; a      *)
(* Python dict is a function with a string domain; None is NonePayload.    *)
(* The result of running a block that may raise is an outcome record       *)
(* [exc |-> BOOLEAN, val |-> value].                                       *)
(***************************************************************************)
EXTENDS Integers, Sequences, FiniteSets, TLC

VARIABLES
    \* ---- search_by_text called on its own ----
    spc,            \* "off" | "call" | "done"
    spipe,          \* "case" | "law": which pipeline's search_by_text
    sfault,         \* which external call of this search fails: "none" | "embed" | "query"
    sraw,           \* the points the index returns for the query, in the index's order
    sout,           \* outcome of the call: [exc, val]
    \* ---- one chat request through the workflow ----
    pc,             \* "off" | "recv" | "rag_case" | "rag_law" | "llm" | "end" | "respond" | "done"
    request,        \* ChatRequest: message, llm_model_id, is_case_rag, is_law_rag
    messages,       \* state["messages"]
    rag_context,    \* state["rag_context"]
    case_results,   \* rag_node local: what the case search returned
    law_results,    \* rag_node local: what the law search returned
    case_path,      \* how the case path of rag_node ended: "skipped" | "ok" | "construct" | "search" | "format"
    law_path,       \* the same for the law path
    trace,          \* external calls of this request, in order
    llm_sent,       \* what was handed to the language model / custom endpoint
    llm_path,       \* how llm_node went: "none" | "ok" | "construct" | "format" | "invoke" |
                    \*   "http_status" | "timeout" | "network" | "unexpected"
    llm_outcome,    \* what the call to the model or the endpoint did ([kind |-> "none"]: not called)
    escaped,        \* TRUE when an exception left the workflow
    http,           \* the endpoint's reply: [status, response]
    served,         \* requests the workflow instance has answered before this one
    \* ---- one call of CaseRAGPipeline.add_cases ----
    ac,             \* the call's frame: arguments, locals, position, return value
    case_index,     \* the case collection: point id -> [vector, payload]
    index0,         \* the case collection when the call started
    calls,          \* the external calls the call made, in order
    outcomes,       \* what each of those calls did: "ok" | "fail" | "fail_applied"
    \* ---- one call of LawRAGPipeline._create_law_chunks ----
    kpc,            \* "off" | "call" | "done"
    law_ref,        \* the law record handed to the call
    chunked,        \* outcome of the call: [exc, val, split_calls]
    \* ---- law ingestion: add_law_references / add_multiple_law_files ----
    mf,             \* frame of add_multiple_law_files
    lf,             \* frame of add_law_references or _add_law_file_with_custom_ids
    law_index,      \* the law collection: point id -> [vector, payload]
    law_index0,     \* the law collection when the call started
    law_calls,      \* external calls made so far, each with its outcome
    law_chunks,     \* record -> outcome of _create_law_chunks on it
    \* ---- collection lifecycle: constructor, get_collection_info, delete_collection ----
    qdrant,         \* pipeline -> its collection on the server: [exists, ...]
    qlog            \* the pipeline operations so far, each with its client calls and outcome

searchVars == <<spc, spipe, sfault, sraw, sout>>
chatVars == <<pc, request, messages, rag_context, case_results, law_results,
              case_path, law_path, trace, llm_sent, llm_path, llm_outcome,
              escaped, http, served>>
ingestVars == <<ac, case_index, index0, calls, outcomes>>
chunkVars == <<kpc, law_ref, chunked>>
lawVars == <<mf, lf, law_index, law_index0, law_calls, law_chunks>>
collVars == <<qdrant, qlog>>
vars == <<searchVars, chatVars, ingestVars, chunkVars, lawVars, collVars>>
notSearchVars == <<chatVars, ingestVars, chunkVars, lawVars, collVars>>
notChatVars == <<searchVars, ingestVars, chunkVars, lawVars, collVars>>
notIngestVars == <<searchVars, chatVars, chunkVars, lawVars, collVars>>
notChunkVars == <<searchVars, chatVars, ingestVars, lawVars, collVars>>
notLawVars == <<searchVars, chatVars, ingestVars, chunkVars, collVars>>
notCollVars == <<searchVars, chatVars, ingestVars, chunkVars, lawVars>>

-----------------------------------------------------------------------------
(* Bounds *)

\* most points the index holds for a stand-alone search
MaxPoints == 3
\* scores are drawn from 0..MaxScore
MaxScore == 1
\* most points either index holds during a chat request
ChatMaxHits == 2
\* most records in a cases file
MaxCases == 3
\* largest batch_size tried
MaxBatch == 2
\* most segments a law text is put together from
MaxSegments == 2
\* most law records in the files of one call
MaxLawRecords == 2
\* most paths handed to add_multiple_law_files
MaxLawFiles == 2
\* most external calls that fail during one law ingestion call
MaxFaults == 1
\* most pipeline operations (constructions, info queries, deletions) in a run
MaxOps == 2
\* most chat requests one workflow instance serves in a run
MaxRequests == 2

(* Program constants *)

\* search_by_text(query, limit=5)
DefaultLimit == 5
\* rag_node: search_by_text(user_message, limit=3)
RagLimit == 3
\* _create_law_chunks: if len(law_text) <= 1000
ChunkThreshold == 1000
\* RecursiveCharacterTextSplitter(chunk_size=1000, ...)
ChunkSize == 1000
\* RecursiveCharacterTextSplitter(..., chunk_overlap=100, ...)
ChunkOverlap == 100
\* models.VectorParams(size=3072, ...)
VectorSize == 3072

-----------------------------------------------------------------------------
(* Generic helpers *)

Min(a, b) == IF a < b THEN a ELSE b

Max(a, b) == IF a > b THEN a ELSE b

Range(s) == {s[i] : i \in 1..Len(s)}

\* number of positions of s holding x
Count(s, x) == Cardinality({i \in 1..Len(s) : s[i] = x})

\* s and t hold the same elements the same number of times
IsPermutation(s, t) ==
    /\ Len(s) = Len(t)
    /\ \A x \in Range(s) \cup Range(t) : Count(s, x) = Count(t, x)

\* [f(s[1]), ..., f(s[n])]
Map(s, f(_)) == [i \in 1..Len(s) |-> f(s[i])]

\* all sequences over S of length 0..n
SeqUpTo(S, n) == UNION {[1..k -> S] : k \in 0..n}

\* dict.get(key, default)
Get(d, key, default) == IF key \in DOMAIN d THEN d[key] ELSE default

\* Python None standing where a dict is expected
NonePayload == [none |-> TRUE]

IsNone(p) == "none" \in DOMAIN p

\* outcome of a block that ran to its return statement
Return(v) == [exc |-> FALSE, val |-> v]

\* outcome of a block that raised
Raise(what) == [exc |-> TRUE, val |-> what]

-----------------------------------------------------------------------------
(* Vector index contents *)

\* payloads add_cases writes, and a point stored without payload
CasePayloadFull ==
    [case_title |-> "t1", division |-> "d1", law_category |-> "c1",
     law_act |-> "a1", reference |-> "r1", case_details |-> "x1"]

CasePayloads == {CasePayloadFull, NonePayload}

\* payloads the law ingestion writes (chunked), legacy payloads without
\* chunk fields, a payload with an empty chunk, and a point without payload
LawPayloadChunk ==
    [part_section |-> "s1", law_text |-> "full", chunk_content |-> "chunk",
     chunk_index |-> 1, total_chunks |-> 2, is_chunked |-> TRUE]

LawPayloadLegacy == [part_section |-> "s1", law_text |-> "full"]

LawPayloadEmptyChunk ==
    [part_section |-> "s1", law_text |-> "full", chunk_content |-> "",
     chunk_index |-> 0, total_chunks |-> 1, is_chunked |-> FALSE]

LawPayloads == {LawPayloadChunk, LawPayloadLegacy, LawPayloadEmptyChunk, NonePayload}

\* ScoredPoint sequences the index can answer with: at most `limit` points of
\* at most `held` stored ones, ids distinct, any scores in any order
QueryPoints(limit, held, scores, payloads) ==
    UNION {{[i \in 1..k |-> [id |-> i, score |-> f[i].score, payload |-> f[i].payload]] :
                f \in [1..k -> [score : scores, payload : payloads]]} :
           k \in 0..Min(limit, held)}

-----------------------------------------------------------------------------
(* search_by_text *)

\* sorted(..., key=lambda x: x.score, reverse=True) inserts one point: after
\* every point whose score is >= its own, so ties keep the index's order
InsertByScore(sorted, p) ==
    LET ahead == Cardinality({i \in 1..Len(sorted) : sorted[i].score >= p.score})
    IN  SubSeq(sorted, 1, ahead) \o <<p>> \o SubSeq(sorted, ahead + 1, Len(sorted))

\* the sort left out: the points in the order the index gave them
UnsortedPoints(points) == points

RECURSIVE SortedByScore(_)
\* results.points = sorted(results.points, key=lambda x: x.score, reverse=True)
SortedByScore(points) ==
    IF points = <<>> THEN <<>>
    ELSE InsertByScore(SortedByScore(SubSeq(points, 1, Len(points) - 1)),
                       points[Len(points)])

\* one element of the list CaseRAGPipeline.search_by_text returns
CaseResult(point) ==
    [payload |-> point.payload, score |-> point.score, id |-> point.id]

\* the stored chunk content, with nothing to fall back on
LawContentChunkOnly(payload) == Get(payload, "chunk_content", "")

\* the content LawRAGPipeline.search_by_text picks for a point: the stored
\* chunk when it is there and non-empty, else the full law text
LawContent(payload) ==
    IF Get(payload, "chunk_content", "") /= ""
    THEN payload["chunk_content"]
    ELSE Get(payload, "law_text", "")

\* one element of the list LawRAGPipeline.search_by_text returns
LawResult(point) ==
    [type |-> "law",
     content |-> LawContent(point.payload),
     metadata |-> [part_section |-> Get(point.payload, "part_section", ""),
                   chunk_index |-> Get(point.payload, "chunk_index", 0),
                   total_chunks |-> Get(point.payload, "total_chunks", 1),
                   is_chunked |-> Get(point.payload, "is_chunked", FALSE)],
     score |-> point.score,
     id |-> point.id,
     payload |-> point.payload]

\* the try block of CaseRAGPipeline.search_by_text
CaseSearchTry(fault, raw) ==
    IF fault = "embed" THEN Raise("embed_query")
    ELSE IF fault = "query" THEN Raise("query_points")
    ELSE Return(Map(SortedByScore(raw), CaseResult))

\* the try block of LawRAGPipeline.search_by_text; point.payload.get raises
\* on a point that carries no payload
LawSearchTry(fault, raw) ==
    IF fault = "embed" THEN Raise("embed_query")
    ELSE IF fault = "query" THEN Raise("query_points")
    ELSE IF \E i \in 1..Len(raw) : IsNone(raw[i].payload) THEN Raise("payload.get")
    ELSE Return(Map(SortedByScore(raw), LawResult))

\* no except clause: the exception leaves search_by_text
SearchReraise(tried) == tried

\* except Exception as e: ... return []
SearchExcept(tried) == IF tried.exc THEN Return(<<>>) ELSE tried

CaseSearchByText(fault, raw) == SearchExcept(CaseSearchTry(fault, raw))

LawSearchByText(fault, raw) == SearchExcept(LawSearchTry(fault, raw))

SearchFaults == {"none", "embed", "query"}

-----------------------------------------------------------------------------
(* rag_node *)

Whitespace == {"", "\n", " "}

RECURSIVE LStrip(_)
LStrip(s) == IF s /= <<>> /\ Head(s) \in Whitespace THEN LStrip(Tail(s)) ELSE s

RECURSIVE RStrip(_)
RStrip(s) ==
    IF s /= <<>> /\ s[Len(s)] \in Whitespace THEN RStrip(SubSeq(s, 1, Len(s) - 1)) ELSE s

\* str.strip()
Strip(s) == RStrip(LStrip(s))

\* the f-string rag_node builds for a case hit, stripped
CaseEntryContent(payload) ==
    Strip(<<"\n", "Case Title: ", Get(payload, "case_title", ""),
            "\n", "Division: ", Get(payload, "division", ""),
            "\n", "Law Category: ", Get(payload, "law_category", ""),
            "\n", "Law Act: ", Get(payload, "law_act", ""),
            "\n", "Reference: ", Get(payload, "reference", ""),
            "\n", "Case Details: ", Get(payload, "case_details", ""),
            "\n">>)

\* rag_context.append({"type": "case", ...})
CaseEntry(result) ==
    [type |-> "case", content |-> CaseEntryContent(result.payload), score |-> result.score]

\* the f-string rag_node builds for a law hit, stripped
LawEntryContent(payload) ==
    Strip(<<"\n", "Part Section: ", Get(payload, "part_section", ""),
            "\n", "Law Text: ", Get(payload, "law_text", ""),
            "\n", "Is Chunked: ", ToString(Get(payload, "is_chunked", FALSE)),
            "\n", "Chunk Index: ", ToString(Get(payload, "chunk_index", 0)),
            " of ", ToString(Get(payload, "total_chunks", 1)),
            "\n">>)

\* rag_context.append({"type": "law", ...})
LawEntry(result) ==
    [type |-> "law", content |-> LawEntryContent(result.payload), score |-> result.score]

\* number of results the for loop of rag_node formats before payload.get
\* raises on a result whose payload is None (all of them when none is)
Formatted(results) ==
    LET bad == {i \in 1..Len(results) : IsNone(results[i].payload)}
    IN  IF bad = {} THEN Len(results)
        ELSE (CHOOSE i \in bad : \A j \in bad : i <= j) - 1

\* the case path never taken
CaseRagNever(req) == FALSE

\* if state["is_case_rag"]:
CaseRagEnabled(req) == req.is_case_rag

\* the flag test left out: the law path always runs
LawRagAlways(req) == TRUE

\* if state["is_law_rag"]:
LawRagEnabled(req) == req.is_law_rag

\* the try block of the case path: construct the pipeline, search, append
CasePathTry(construct_ok, fault, raw, context) ==
    IF ~construct_ok
    THEN [exc |-> TRUE, context |-> context, results |-> <<>>, path |-> "construct"]
    ELSE LET found == CaseSearchByText(fault, raw)
             results == IF found.exc THEN <<>> ELSE found.val
             n == Formatted(results)
         IN  [exc |-> found.exc \/ n < Len(results),
              context |-> context \o Map(SubSeq(results, 1, n), CaseEntry),
              results |-> results,
              path |-> IF found.exc \/ fault /= "none" THEN "search"
                       ELSE IF n < Len(results) THEN "format" ELSE "ok"]

\* the try block of the law path
LawPathTry(construct_ok, fault, raw, context) ==
    IF ~construct_ok
    THEN [exc |-> TRUE, context |-> context, results |-> <<>>, path |-> "construct"]
    ELSE LET found == LawSearchByText(fault, raw)
             results == IF found.exc THEN <<>> ELSE found.val
             n == Formatted(results)
         IN  [exc |-> found.exc \/ n < Len(results),
              context |-> context \o Map(SubSeq(results, 1, n), LawEntry),
              results |-> results,
              path |-> IF found.exc \/ fault /= "none" \/ results /= Map(SortedByScore(raw), LawResult)
                       THEN "search"
                       ELSE IF n < Len(results) THEN "format" ELSE "ok"]

\* except Exception as e: logger.error("Case RAG error ...")
CasePathExcept(tried) == [tried EXCEPT !.exc = FALSE]

\* no except clause around the law path
LawPathReraise(tried) == tried

\* except Exception as e: logger.error("Law RAG error ...")
LawPathExcept(tried) == [tried EXCEPT !.exc = FALSE]

-----------------------------------------------------------------------------
(* Response generation: ChatAgent, CustomLLMChatAgent, CustomLLMAPI *)

ModelIds == {"gemini", "openai", "custom_llm", "llama"}

\* texts a model or the endpoint can answer with: some text, or the empty string
ModelTexts == {<<"answer">>, <<>>}

\* what awaiting self.llm.ainvoke(prompt) can do
InvokeOutcomes ==
    {[kind |-> "reply", text |-> t] : t \in ModelTexts}
    \cup {[kind |-> "raise", class |-> "RuntimeError"]}

\* what requests.post(...) and reading its response can do
HttpOutcomes ==
    {[kind |-> "reply", status |-> 200, text |-> t] : t \in ModelTexts}
    \cup {[kind |-> "reply", status |-> 500, text |-> <<"Internal Server Error">>]}
    \cup {[kind |-> "raise", class |-> c] : c \in {"Timeout", "ConnectionError", "ValueError"}}

\* requests.exceptions: Timeout and ConnectionError derive from RequestException
IsInstance(class, of) ==
    \/ class = of
    \/ of = "Exception"
    \/ of = "RequestException" /\ class \in {"Timeout", "ConnectionError"}

RECURSIVE JoinLines(_)
\* chr(10).join(context_parts)
JoinLines(parts) ==
    IF parts = <<>> THEN <<>>
    ELSE IF Len(parts) = 1 THEN parts[1]
    ELSE parts[1] \o <<"\n">> \o JoinLines(Tail(parts))

RECURSIVE ContextParts(_)
\* the loop over rag_context building context_parts
ContextParts(context) ==
    IF context = <<>> THEN <<>>
    ELSE LET item == Head(context)
             part == IF Get(item, "type", "") = "case"
                     THEN << <<"Legal Case: ">> \o Get(item, "content", <<>>) >>
                     ELSE IF Get(item, "type", "") = "law"
                     THEN << <<"Law Reference: ">> \o Get(item, "content", <<>>) >>
                     ELSE <<>>
         IN  part \o ContextParts(Tail(context))

\* context_text of ChatAgent.generate_response
ContextText(context) ==
    IF context /= <<>> /\ ContextParts(context) /= <<>>
    THEN <<"\n\n", "Relevant Context:", "\n">> \o JoinLines(ContextParts(context))
    ELSE <<>>

\* rag_context_text of CustomLLMChatAgent.generate_response
RagContextText(context) ==
    IF context /= <<>> /\ ContextParts(context) /= <<>>
    THEN <<"\n\n", "Relevant Context:", "\n">> \o JoinLines(ContextParts(context))
    ELSE <<>>

\* ChatAgent._load_prompt_template: system + human, or human alone when the
\* YAML file cannot be read; format_messages fills in {user_input}
FormatMessages(template_ok, full_input) ==
    (IF template_ok THEN <<[type |-> "system", content |-> <<"SYSTEM_PROMPT">>]>> ELSE <<>>)
    \o <<[type |-> "human", content |-> full_input]>>

\* CustomLLMChatAgent._load_system_prompt
LoadSystemPrompt(template_ok) ==
    IF template_ok THEN <<"SYSTEM_PROMPT">>
    ELSE <<"You are a helpful legal assistant specializing in Bangladeshi law.">>

\* content of the last message of the given type, or the default
LastOfType(msgs, type, default) ==
    LET at == {i \in 1..Len(msgs) : msgs[i].type = type}
    IN  IF at = {} THEN default
        ELSE msgs[CHOOSE i \in at : \A j \in at : j <= i].content

\* CustomLLMAPI._format_messages_for_api
FormatMessagesForApi(msgs, rag_text) ==
    [user_prompt |-> LastOfType(msgs, "human", <<>>),
     system_prompt |-> LastOfType(msgs, "system",
        <<"You are a helpful legal assistant specializing in Bangladeshi law. Provide accurate, detailed responses.">>),
     chat_history |-> <<>>,
     rag_context |-> rag_text,
     max_new_tokens |-> 2048]

\* CustomLLMAPI._agenerate, the try block after the request was answered
AGenerateAnswered(outcome) ==
    IF outcome.status = 200
    THEN [content |-> outcome.text, path |-> "ok"]
    ELSE [content |-> <<"I apologize", ", but I encountered an ", "API error", ": ",
                        "Custom LLM API error ", ToString(outcome.status), ": ">>
                      \o outcome.text,
          path |-> "http_status"]

\* the except clauses with RequestException tested before Timeout
AGenerateExceptReordered(class) ==
    IF IsInstance(class, "RequestException")
    THEN [content |-> <<"I apologize", ", but I encountered a ", "network error", ": ",
                        "Custom LLM API network error: ", class>>,
          path |-> "network"]
    ELSE IF IsInstance(class, "Timeout")
    THEN [content |-> <<"I apologize", ", but the request ", "timed out", ": ",
                        "Custom LLM API request ", "timed out", " (>5 minutes)">>,
          path |-> "timeout"]
    ELSE [content |-> <<"I apologize", ", but I encountered an ", "unexpected error", ": ",
                        "Custom LLM API unexpected error: ", class>>,
          path |-> "unexpected"]

\* CustomLLMAPI._agenerate, the except clauses in the order they are written
AGenerateExcept(class) ==
    IF IsInstance(class, "Timeout")
    THEN [content |-> <<"I apologize", ", but the request ", "timed out", ": ",
                        "Custom LLM API request ", "timed out", " (>5 minutes)">>,
          path |-> "timeout"]
    ELSE IF IsInstance(class, "RequestException")
    THEN [content |-> <<"I apologize", ", but I encountered a ", "network error", ": ",
                        "Custom LLM API network error: ", class>>,
          path |-> "network"]
    ELSE [content |-> <<"I apologize", ", but I encountered an ", "unexpected error", ": ",
                        "Custom LLM API unexpected error: ", class>>,
          path |-> "unexpected"]

\* CustomLLMAPI._agenerate: always a ChatResult, whose message content this is
AGenerate(msgs, rag_text, outcome) ==
    LET got == IF outcome.kind = "raise" THEN AGenerateExcept(outcome.class)
               ELSE AGenerateAnswered(outcome)
    IN  [exc |-> FALSE, val |-> got.content, path |-> got.path,
         sent |-> <<[to |-> "custom_llm", payload |-> FormatMessagesForApi(msgs, rag_text)]>>]

\* the try block of CustomLLMChatAgent.generate_response
CustomGenerateTry(user_input, context, template_ok, outcome) ==
    LET rag_text == RagContextText(context)
        msgs == <<[type |-> "system", content |-> LoadSystemPrompt(template_ok)],
                  [type |-> "human", content |-> user_input \o rag_text]>>
    IN  AGenerate(msgs, rag_text, outcome)

\* except Exception as e: return f"I apologize, ... while processing your request: ..."
GenerateExcept(tried) ==
    IF tried.exc
    THEN [tried EXCEPT !.exc = FALSE,
                       !.val = <<"I apologize", ", but I encountered an error while processing your request: ",
                                 tried.val>>]
    ELSE tried

\* CustomLLMChatAgent.generate_response
CustomGenerateResponse(user_input, context, template_ok, outcome) ==
    GenerateExcept(CustomGenerateTry(user_input, context, template_ok, outcome))

\* the try block of ChatAgent.generate_response for gemini and openai
StandardGenerateTry(model_id, user_input, context, template_ok, outcome) ==
    LET full_input == user_input \o ContextText(context)
        prompt == FormatMessages(template_ok, full_input)
        sent == <<[to |-> model_id, prompt |-> prompt]>>
    IN  IF outcome.kind = "raise"
        THEN [exc |-> TRUE, val |-> outcome.class, path |-> "invoke", sent |-> sent]
        ELSE [exc |-> FALSE, val |-> outcome.text, path |-> "ok", sent |-> sent]

\* ChatAgent.generate_response
GenerateResponse(model_id, user_input, context, template_ok, outcome) ==
    IF model_id = "custom_llm"
    THEN GenerateExcept(CustomGenerateResponse(user_input, context, template_ok, outcome))
    ELSE GenerateExcept(StandardGenerateTry(model_id, user_input, context, template_ok, outcome))

\* the try block of llm_node: ChatAgent(model_id), latest human message,
\* generate_response
LlmNodeTry(model_id, msgs, context, construct_ok, template_ok, outcome) ==
    IF model_id \notin {"gemini", "openai", "custom_llm"}
    THEN [exc |-> TRUE, val |-> "Unsupported model_id", path |-> "construct", sent |-> <<>>]
    ELSE IF ~construct_ok
    THEN [exc |-> TRUE, val |-> "client construction failed", path |-> "construct", sent |-> <<>>]
    ELSE GenerateResponse(model_id, LastOfType(msgs, "human", <<>>), context,
                          template_ok, outcome)

\* no except clause in llm_node
LlmNodeReraise(tried) == tried

\* except Exception as e: ... f"I apologize, but I encountered an error: {str(e)}"
LlmNodeExcept(tried) ==
    IF tried.exc
    THEN [tried EXCEPT !.exc = FALSE,
                       !.val = <<"I apologize", ", but I encountered an error: ", tried.val>>]
    ELSE tried

-----------------------------------------------------------------------------
(* CaseRAGPipeline.add_cases *)

\* records of a cases file: one with all six fields, one with the title only
CaseRecordFull ==
    ("case-title" :> "t1") @@ ("division" :> "d1") @@ ("law_category" :> "c1")
    @@ ("law_act" :> "a1") @@ ("reference" :> "r1") @@ ("case-details" :> "x1")

CaseRecordBare == ("case-title" :> "t2")

CaseRecords == {CaseRecordFull, CaseRecordBare}

\* CaseRAGPipeline._create_case_content
CreateCaseContent(case) ==
    <<"Case Title: ", Get(case, "case-title", ""), "\n",
      "Division: ", Get(case, "division", ""), "\n",
      "Law Category: ", Get(case, "law_category", ""), "\n",
      "Law Act: ", Get(case, "law_act", ""), "\n",
      "Reference: ", Get(case, "reference", ""), "\n",
      "Case Details: ", Get(case, "case-details", "")>>

\* the metadata payload add_cases builds for a case
CasePayloadOf(case) ==
    [case_title |-> Get(case, "case-title", ""),
     division |-> Get(case, "division", ""),
     law_category |-> Get(case, "law_category", ""),
     law_act |-> Get(case, "law_act", ""),
     reference |-> Get(case, "reference", ""),
     case_details |-> Get(case, "case-details", "")]

\* case_id = idx written for case_id = batch_start + idx
CasePointLocalId(batch_start, idx, case) ==
    [id |-> idx,
     vector |-> [embedding_of |-> CreateCaseContent(case)],
     payload |-> CasePayloadOf(case)]

\* models.PointStruct(id=case_id, vector=text_embedding, payload=payload)
CasePoint(batch_start, idx, case) ==
    [id |-> batch_start + idx,
     vector |-> [embedding_of |-> CreateCaseContent(case)],
     payload |-> CasePayloadOf(case)]

\* Python's seq[a:b] for any integers a and b
PySlice(seq, a, b) ==
    LET n == Len(seq)
        lo == IF a < 0 THEN Max(a + n, 0) ELSE Min(a, n)
        hi == IF b < 0 THEN Max(b + n, 0) ELSE Min(b, n)
    IN  SubSeq(seq, lo + 1, hi)

\* the clamp left out
KeepStart(start_index) == start_index

\* if start_index < 0: start_index = 0
NormalizeStart(start_index) == IF start_index < 0 THEN 0 ELSE start_index

\* > written for >=
NothingToDoStrict(start_index, total_cases) == start_index > total_cases

\* if start_index >= total_cases: ... return True
NothingToDo(start_index, total_cases) == start_index >= total_cases

\* upload_points: every point replaces or creates the point of its id
Upsert(index, points) ==
    LET ids == {points[i].id : i \in 1..Len(points)}
        last(id) == CHOOSE i \in 1..Len(points) :
                        /\ points[i].id = id
                        /\ \A j \in 1..Len(points) : points[j].id = id => j <= i
    IN  [id \in DOMAIN index \cup ids |->
            IF id \in ids
            THEN [vector |-> points[last(id)].vector, payload |-> points[last(id)].payload]
            ELSE index[id]]

\* batch_cases of the batch the frame is in
BatchCases(f) ==
    PySlice(f.file, f.batch_start, Min(f.batch_start + f.batch_size, Len(f.file)))

\* a failed call takes back the points it uploaded
FinishRollback(cfg, value) ==
    LET sent == UNION {{cfg.calls[i].points[j].id : j \in 1..Len(cfg.calls[i].points)} :
                          i \in {k \in 1..Len(cfg.calls) : cfg.calls[k].op = "upload_points"}}
        kept == IF value = "False"
                THEN [id \in DOMAIN cfg.index \ sent |-> cfg.index[id]]
                ELSE cfg.index
    IN  [cfg EXCEPT !.frame.pc = "done", !.frame.ret = value, !.index = kept]

\* return <value>: the call is over
Finish(cfg, value) == [cfg EXCEPT !.frame.pc = "done", !.frame.ret = value]

\* one turn of `for batch_start in range(...)` begins, or the loop is over
EnterBatch(cfg, batch_start) ==
    IF batch_start >= Len(cfg.frame.file)
    THEN Finish(cfg, "True")
    ELSE LET f == [cfg.frame EXCEPT !.batch_start = batch_start, !.idx = 0,
                                    !.points = <<>>]
         IN  [cfg EXCEPT !.frame = [f EXCEPT !.pc = IF BatchCases(f) = <<>>
                                                    THEN "upload" ELSE "embed"]]

\* open + json.load, the start_index checks, range(start_index, total, batch_size)
OpenStep(cfg, outcome) ==
    LET called == [cfg EXCEPT !.calls = Append(@, [op |-> "open"])]
        start == NormalizeStart(cfg.frame.start_index)
        started == [called EXCEPT !.frame.start_index = start]
    IN  IF outcome /= "ok" THEN Finish(called, "False")
        ELSE IF NothingToDo(start, Len(cfg.frame.file)) THEN Finish(started, "True")
        ELSE IF cfg.frame.batch_size = 0 THEN Finish(started, "False")
        ELSE IF cfg.frame.batch_size < 0 THEN Finish(started, "True")
        ELSE EnterBatch(started, start)

\* one turn of `for idx, case in enumerate(batch_cases)`
EmbedStep(cfg, outcome) ==
    LET f == cfg.frame
        case == BatchCases(f)[f.idx + 1]
        called == [cfg EXCEPT !.calls = Append(@, [op |-> "embed_query",
                                                   id |-> f.batch_start + f.idx,
                                                   text |-> CreateCaseContent(case)])]
    IN  IF outcome /= "ok" THEN Finish(called, "False")
        ELSE [called EXCEPT
                !.frame.points = Append(@, CasePoint(f.batch_start, f.idx, case)),
                !.frame.idx = @ + 1,
                !.frame.pc = IF f.idx + 1 = Len(BatchCases(f)) THEN "upload" ELSE "embed"]

\* a failed upload logged and skipped, as the law ingestion skips a failed chunk
UploadStepSkip(cfg, outcome) ==
    LET f == cfg.frame
        called == [cfg EXCEPT !.calls = Append(@, [op |-> "upload_points",
                                                   points |-> f.points])]
        written == [called EXCEPT !.index = Upsert(@, f.points)]
    IN  EnterBatch(IF outcome = "fail" THEN called ELSE written,
                   f.batch_start + f.batch_size)

\* self.qdrant_client.upload_points(points=points), then the next batch. A
\* failed upload may or may not have reached the index.
UploadStep(cfg, outcome) ==
    LET f == cfg.frame
        called == [cfg EXCEPT !.calls = Append(@, [op |-> "upload_points",
                                                   points |-> f.points])]
        written == [called EXCEPT !.index = Upsert(@, f.points)]
    IN  IF outcome = "fail" THEN Finish(called, "False")
        ELSE IF outcome = "fail_applied" THEN Finish(written, "False")
        ELSE EnterBatch(written, f.batch_start + f.batch_size)

\* add_cases from one external call to the next
AddCasesStep(cfg, outcome) ==
    IF cfg.frame.pc = "open" THEN OpenStep(cfg, outcome)
    ELSE IF cfg.frame.pc = "embed" THEN EmbedStep(cfg, outcome)
    ELSE IF cfg.frame.pc = "upload" THEN UploadStep(cfg, outcome)
    ELSE cfg

\* the call add_cases(file, batch_size, start_index=start_index) about to run
CallAddCases(file, batch_size, start_index, index) ==
    [frame |-> [pc |-> "open", file |-> file, batch_size |-> batch_size,
                start_arg |-> start_index, start_index |-> start_index,
                batch_start |-> 0, idx |-> 0, points |-> <<>>, ret |-> "none"],
     index |-> index,
     calls |-> <<>>]

RECURSIVE Replay(_, _)
\* the configuration after the external calls went as `outs` says
Replay(cfg, outs) ==
    IF outs = <<>> THEN cfg ELSE Replay(AddCasesStep(cfg, Head(outs)), Tail(outs))

IngestOff ==
    /\ ac = [pc |-> "off"]
    /\ case_index = <<>>
    /\ index0 = <<>>
    /\ calls = <<>>
    /\ outcomes = <<>>

-----------------------------------------------------------------------------
(* LawRAGPipeline._create_law_chunks and the text splitter it is given *)
(* A text is a sequence of one-character strings.  A JSON value of a law    *)
(* record is [str |-> text] or NonePayload (null).                          *)

JStr(text) == [str |-> text]

\* ch repeated n times
Repeat(ch, n) == [i \in 1..n |-> ch]

RECURSIVE Loop(_, _, _, _)
\* st after `for i in lo..hi: st = Step(st, i)`; the first half of the turns
\* is evaluated before the second half is entered
Loop(Step(_, _), st, lo, hi) ==
    IF lo > hi THEN st
    ELSE IF lo = hi THEN Step(st, lo)
    ELSE LET mid == (lo + hi) \div 2
             left == Loop(Step, st, lo, mid)
         IN  IF left = left THEN Loop(Step, left, mid + 1, hi) ELSE left

\* str.strip() of a text
StripText(s) ==
    LET n == Len(s)
        lead == Cardinality({i \in 1..n : \A j \in 1..i : s[j] \in Whitespace})
        trail == Cardinality({i \in 1..n : \A j \in i..n : s[j] \in Whitespace})
    IN  IF lead = n THEN <<>> ELSE SubSeq(s, lead + 1, n - trail)

\* "".join(strings)
Concat(strings) ==
    LET Step(st, i) == st \o strings[i]
    IN  Loop(Step, <<>>, 1, Len(strings))

\* the splitter's separators: paragraph, line, word, character
Separators == << <<"\n", "\n">>, <<"\n">>, <<" ">>, <<>> >>

\* re.search(separator, text)
Occurs(sep, text) ==
    \E i \in 1..(Len(text) - Len(sep) + 1) : SubSeq(text, i, i + Len(sep) - 1) = sep

\* the text cut before every occurrence of the separator (found left to
\* right, not overlapping), each separator kept at the head of the piece that
\* follows it, empty pieces dropped; list(text) for the empty separator
SplitKeepingSeparator(text, sep) ==
    LET Step(st, i) ==
            IF st.skip > 0
            THEN [st EXCEPT !.skip = @ - 1, !.cur = Append(@, text[i])]
            ELSE IF sep = <<>> \/ SubSeq(text, i, Min(i + Len(sep) - 1, Len(text))) = sep
            THEN [pieces |-> IF st.cur = <<>> THEN st.pieces ELSE Append(st.pieces, st.cur),
                  cur |-> <<text[i]>>,
                  skip |-> IF sep = <<>> THEN 0 ELSE Len(sep) - 1]
            ELSE [st EXCEPT !.cur = Append(@, text[i])]
        done == Loop(Step, [pieces |-> <<>>, cur |-> <<>>, skip |-> 0], 1, Len(text))
    IN  IF done.cur = <<>> THEN done.pieces ELSE Append(done.pieces, done.cur)

\* the pieces of a chunk joined and stripped; <<>> stands for "no chunk"
JoinDocs(docs) == StripText(Concat(docs))

\* after a chunk is emitted: pieces are dropped from the front while more
\* than the overlap is held, or the next piece would not fit
PopWhile(doc, len) ==
    LET Step(st, k) ==
            IF st.total > ChunkOverlap \/ (st.total + len > ChunkSize /\ st.total > 0)
            THEN [cur |-> Tail(st.cur), total |-> st.total - Len(Head(st.cur))]
            ELSE st
    IN  Loop(Step, doc, 1, Len(doc.cur))

\* pieces merged into chunks of at most chunk_size characters, consecutive
\* chunks sharing at most chunk_overlap characters
MergeSplits(splits) ==
    LET Step(st, i) ==
            LET d == splits[i]
                len == Len(d)
            IN  IF st.total + len > ChunkSize /\ Len(st.cur) > 0
                THEN LET doc == JoinDocs(st.cur)
                         kept == PopWhile([cur |-> st.cur, total |-> st.total], len)
                     IN  [docs |-> IF doc = <<>> THEN st.docs ELSE Append(st.docs, doc),
                          cur |-> Append(kept.cur, d),
                          total |-> kept.total + len]
                ELSE [st EXCEPT !.cur = Append(@, d), !.total = @ + len]
        done == Loop(Step, [docs |-> <<>>, cur |-> <<>>, total |-> 0], 1, Len(splits))
        doc == JoinDocs(done.cur)
    IN  IF doc = <<>> THEN done.docs ELSE Append(done.docs, doc)

RECURSIVE SplitText(_, _)
\* self.text_splitter.split_text(law_text): cut at the first separator of the
\* list that occurs in the text, merge the pieces shorter than chunk_size,
\* and cut a longer piece again with the separators that remain
SplitText(text, separators) ==
    LET found == {k \in 1..Len(separators) :
                    separators[k] = <<>> \/ Occurs(separators[k], text)}
        at == IF found = {} THEN Len(separators)
              ELSE CHOOSE k \in found : \A j \in found : k <= j
        separator == separators[at]
        new_separators == IF found = {} \/ separator = <<>> THEN <<>>
                          ELSE SubSeq(separators, at + 1, Len(separators))
        splits == SplitKeepingSeparator(text, separator)
        Flush(st) == IF st.good = <<>> THEN st
                     ELSE [final |-> st.final \o MergeSplits(st.good), good |-> <<>>]
        Step(st, i) ==
            LET s == splits[i]
            IN  IF Len(s) < ChunkSize THEN [st EXCEPT !.good = Append(@, s)]
                ELSE LET flushed == Flush(st)
                     IN  [flushed EXCEPT !.final =
                            IF new_separators = <<>> THEN Append(@, s)
                            ELSE @ \o SplitText(s, new_separators)]
    IN  Flush(Loop(Step, [final |-> <<>>, good |-> <<>>], 1, Len(splits))).final

\* < written for <=
FitsOneChunkStrict(law_text) == Len(law_text) < ChunkThreshold

\* if len(law_text) <= 1000:
FitsOneChunk(law_text) == Len(law_text) <= ChunkThreshold

\* the single chunk of a short law text
WholeChunk(part_section, law_text) ==
    [content |-> <<"Part Section: ">> \o part_section \o <<"\n", "Law Text: ">> \o law_text,
     part_section |-> part_section,
     chunk_index |-> 0,
     total_chunks |-> 1,
     chunk_content |-> law_text]

\* chunk_data.append({...}) for the i-th piece (i counted from 0)
PartChunk(part_section, chunks, i) ==
    [content |-> <<"Part Section: ">> \o part_section
                 \o <<"\n", "Law Text (Chunk ", ToString(i + 1), "/",
                      ToString(Len(chunks)), "): ">> \o chunks[i + 1],
     part_section |-> part_section,
     chunk_index |-> i,
     total_chunks |-> Len(chunks),
     chunk_content |-> chunks[i + 1]]

\* _create_law_chunks(law_ref). law_ref.get raises on a record that is no
\* dict, len(law_text) on a null law_text, part_section[:50] (in the log
\* line of either branch) on a null part_section.
CreateLawChunks(ref) ==
    IF IsNone(ref)
    THEN [exc |-> TRUE, val |-> "AttributeError", split_calls |-> 0]
    ELSE LET part_section == Get(ref, "part_section", JStr(<<>>))
             law_text == Get(ref, "law_text", JStr(<<>>))
         IN  IF IsNone(law_text) \/ IsNone(part_section)
             THEN [exc |-> TRUE, val |-> "TypeError", split_calls |-> 0]
             ELSE IF FitsOneChunk(law_text.str)
             THEN [exc |-> FALSE, val |-> <<WholeChunk(part_section.str, law_text.str)>>,
                   split_calls |-> 0]
             ELSE LET chunks == SplitText(law_text.str, Separators)
                  IN  [exc |-> FALSE,
                       val |-> [k \in 1..Len(chunks) |->
                                    PartChunk(part_section.str, chunks, k - 1)],
                       split_calls |-> 1]

ChunkOff ==
    /\ kpc = "off"
    /\ law_ref = NonePayload
    /\ chunked = [exc |-> FALSE, val |-> <<>>, split_calls |-> 0]

-----------------------------------------------------------------------------
(* LawRAGPipeline: add_law_references, add_multiple_law_files and its helper *)

\* law records of the files: a short text (one chunk), two paragraphs of 600
\* letters (two chunks), a null law_text, a null part_section
LawRefShort == [part_section |-> JStr(<<"s", "1">>), law_text |-> JStr(<<"x">>)]

LawRefLong ==
    [part_section |-> JStr(<<"s", "2">>),
     law_text |-> JStr(Repeat("a", 600) \o <<"\n", "\n">> \o Repeat("b", 600))]

LawRefNoText == [part_section |-> JStr(<<"s", "3">>), law_text |-> NonePayload]

LawRefNoSection == [part_section |-> NonePayload, law_text |-> JStr(<<"y">>)]

IngestLawRefs == {LawRefShort, LawRefLong, LawRefNoText, LawRefNoSection}

\* chunks = self._create_law_chunks(law_ref), for each record of the files;
\* computed once when a call starts and kept in law_chunks
LawChunksOf == [ref \in IngestLawRefs |-> CreateLawChunks(ref)]

\* payload = {...} of a chunk
LawPayloadOf(chunk_data, ref) ==
    [part_section |-> chunk_data.part_section,
     law_text |-> Get(ref, "law_text", JStr(<<>>)).str,
     chunk_content |-> chunk_data.chunk_content,
     chunk_index |-> chunk_data.chunk_index,
     total_chunks |-> chunk_data.total_chunks,
     is_chunked |-> chunk_data.total_chunks > 1]

\* models.PointStruct(id=current_point_id, vector=text_embedding, payload=payload)
LawPoint(current_point_id, chunk_data, ref) ==
    [id |-> current_point_id,
     vector |-> [embedding_of |-> chunk_data.content],
     payload |-> LawPayloadOf(chunk_data, ref)]

\* the call add_law_references(path, batch_size, start_index=start_index)
\* (mode "single") or _add_law_file_with_custom_ids(path, batch_size, verbose,
\* start_point_id) (mode "custom") about to run
CallAddLaw(mode, file, batch_size, start_index, start_point_id) ==
    [pc |-> "open", mode |-> mode, file |-> file, batch_size |-> batch_size,
     start_arg |-> start_index, start_index |-> start_index,
     start_point_id |-> start_point_id,
     batch_start |-> 0, idx |-> 0, chunk_idx |-> 0, points |-> <<>>,
     skipped_count |-> 0, current_point_id |-> 0, ret |-> "none"]

\* batch_references of the batch the frame is in
LawBatch(f) ==
    PySlice(f.file, f.batch_start, Min(f.batch_start + f.batch_size, Len(f.file)))

\* return <value>: the call is over
LawFinish(cfg, value) == [cfg EXCEPT !.frame.pc = "done", !.frame.ret = value]

\* every batch numbered from the start_index of the call
BatchFirstIdFromStart(f, batch_start) ==
    IF f.mode = "single" THEN f.start_index ELSE f.start_point_id + batch_start

\* current_point_id = batch_start (add_law_references),
\* current_point_id = start_point_id + batch_start (the helper)
BatchFirstId(f, batch_start) ==
    IF f.mode = "single" THEN batch_start ELSE f.start_point_id + batch_start

\* one turn of `for batch_start in range(...)` begins
EnterLawBatch(cfg, batch_start) ==
    [cfg EXCEPT !.frame.batch_start = batch_start,
                !.frame.idx = 0,
                !.frame.chunk_idx = 0,
                !.frame.points = <<>>,
                !.frame.skipped_count = 0,
                !.frame.current_point_id = BatchFirstId(cfg.frame, batch_start)]

\* law_ref.get('part_section', 'Unknown')[:100] in the helper's record
\* handler raises on a record that is no dict or whose part_section is null
RecordExceptRaises(ref) ==
    IsNone(ref) \/ IsNone(Get(ref, "part_section", JStr(<<"Unknown">>)))

\* every batch uploaded, points or none
UploadsBatchAlways(f) == TRUE

\* add_law_references uploads every batch; the helper uploads `if points:`
UploadsBatch(f) == f.mode = "single" \/ f.points /= <<>>

RECURSIVE LawAdvance(_)
\* the call runs on to its next external call or to its return: the end of
\* the file, the end of the batch (add_law_references uploads every batch,
\* the helper only `if points:`), a record whose chunking raises (the helper
\* counts it and goes on unless its handler raises too, add_law_references
\* has no handler but the outermost), the next chunk to embed
LawAdvance(cfg) ==
    LET f == cfg.frame
        batch == LawBatch(f)
    IN  IF f.batch_start >= Len(f.file) THEN LawFinish(cfg, "True")
        ELSE IF f.idx >= Len(batch)
        THEN IF UploadsBatch(f)
             THEN [cfg EXCEPT !.frame.pc = "upload"]
             ELSE LawAdvance(EnterLawBatch(cfg, f.batch_start + f.batch_size))
        ELSE LET ref == batch[f.idx + 1]
                 chunks == law_chunks[ref]
                 next_record == [cfg EXCEPT !.frame.idx = @ + 1, !.frame.chunk_idx = 0]
             IN  IF chunks.exc
                 THEN IF f.mode = "single" THEN LawFinish(cfg, "False")
                      ELSE IF RecordExceptRaises(ref)
                      THEN LawFinish([cfg EXCEPT !.frame.skipped_count = @ + 1], "False")
                      ELSE LawAdvance([next_record EXCEPT !.frame.skipped_count = @ + 1])
                 ELSE IF f.chunk_idx < Len(chunks.val)
                 THEN [cfg EXCEPT !.frame.pc = "embed"]
                 ELSE LawAdvance(next_record)

\* open + json.load; add_law_references then checks start_index
LawOpenStep(cfg, outcome) ==
    LET f == cfg.frame
        called == [cfg EXCEPT !.calls = Append(@, [op |-> "open", outcome |-> outcome])]
        start == NormalizeStart(f.start_index)
        started == [called EXCEPT !.frame.start_index = start]
    IN  IF outcome /= "ok" THEN LawFinish(called, "False")
        ELSE IF f.mode = "custom" THEN LawAdvance(EnterLawBatch(called, 0))
        ELSE IF NothingToDo(start, Len(f.file)) THEN LawFinish(started, "True")
        ELSE LawAdvance(EnterLawBatch(started, start))

\* self.embeddings.embed_query(chunk_data["content"]) and the rest of the
\* turn of `for chunk_idx, chunk_data in enumerate(chunks)`; the helper
\* catches a failure, counts it and goes on to the next chunk
LawEmbedStep(cfg, outcome) ==
    LET f == cfg.frame
        ref == LawBatch(f)[f.idx + 1]
        chunk_data == law_chunks[ref].val[f.chunk_idx + 1]
        called == [cfg EXCEPT !.calls = Append(@,
                        [op |-> "embed_query", outcome |-> outcome,
                         record |-> f.batch_start + f.idx, chunk_idx |-> f.chunk_idx])]
        next_chunk == [called EXCEPT !.frame.chunk_idx = @ + 1]
    IN  IF outcome = "ok"
        THEN LawAdvance([next_chunk EXCEPT
                !.frame.points = Append(@, LawPoint(f.current_point_id, chunk_data, ref)),
                !.frame.current_point_id = @ + 1])
        ELSE IF f.mode = "single" THEN LawFinish(called, "False")
        ELSE LawAdvance([next_chunk EXCEPT !.frame.skipped_count = @ + 1])

\* self.qdrant_client.upload_points(points=points), then the next batch. A
\* failed upload may or may not have reached the collection.
LawUploadStep(cfg, outcome) ==
    LET f == cfg.frame
        called == [cfg EXCEPT !.calls = Append(@,
                        [op |-> "upload_points", outcome |-> outcome,
                         ids |-> [i \in 1..Len(f.points) |-> f.points[i].id],
                         skipped_count |-> f.skipped_count])]
        written == [called EXCEPT !.index = Upsert(@, f.points)]
    IN  IF outcome = "fail" THEN LawFinish(called, "False")
        ELSE IF outcome = "fail_applied" THEN LawFinish(written, "False")
        ELSE LawAdvance(EnterLawBatch(written, f.batch_start + f.batch_size))

\* get_collection_info(): every exception is caught and {} returned
GetCollectionInfo(index, outcome) ==
    IF outcome = "ok"
    THEN [name |-> "law_reference", vectors_count |-> Cardinality(DOMAIN index),
          points_count |-> Cardinality(DOMAIN index), status |-> "green"]
    ELSE [key \in {} |-> 0]

\* the call add_multiple_law_files(json_file_paths, batch_size) about to run;
\* a path is [exists |-> FALSE] or [exists |-> TRUE, data |-> the records]
CallAddMultiple(paths, batch_size) ==
    [pc |-> "count", paths |-> paths, batch_size |-> batch_size, file_idx |-> 0,
     current_point_id |-> 0, starts |-> <<>>, ret |-> "none"]

RECURSIVE EnterNextFile(_, _)
\* for file_idx, json_file_path in enumerate(json_file_paths, 1): a path that
\* does not exist is logged and passed over, the helper is called on the
\* first that does, and after the last path the call returns True.
\* Gives <<frame of add_multiple_law_files, frame of the helper>>.
EnterNextFile(m, helper) ==
    IF m.file_idx >= Len(m.paths)
    THEN <<[m EXCEPT !.pc = "done", !.ret = "True"], helper>>
    ELSE LET path == m.paths[m.file_idx + 1]
             entered == [m EXCEPT !.file_idx = @ + 1]
         IN  IF ~path.exists THEN EnterNextFile(entered, helper)
             ELSE <<[entered EXCEPT !.pc = "helper",
                                    !.starts = Append(@, m.current_point_id)],
                    CallAddLaw("custom", path.data, m.batch_size, 0, m.current_point_id)>>

\* the try block after a file: the count of the collection, or the id
\* unchanged when the info has no points_count; nothing in it raises
UpdatePointIdTry(info, current_point_id) ==
    Return(Get(info, "points_count", current_point_id))

\* its except clause: twice the records of the file, 100 when the file
\* cannot be read again
UpdatePointIdExcept(current_point_id, file, reopen) ==
    IF reopen = "ok" THEN current_point_id + Len(file) * 2 ELSE current_point_id + 100

\* current_point_id after a file
UpdatePointId(info, current_point_id, file, reopen) ==
    LET tried == UpdatePointIdTry(info, current_point_id)
    IN  IF tried.exc THEN UpdatePointIdExcept(current_point_id, file, reopen)
        ELSE tried.val

LawOff ==
    /\ mf = [pc |-> "off"]
    /\ lf = [pc |-> "off"]
    /\ law_index = <<>>
    /\ law_index0 = <<>>
    /\ law_calls = <<>>
    /\ law_chunks = <<>>

-----------------------------------------------------------------------------
(* Collection lifecycle of both pipelines: _ensure_collection_exists (run by *)
(* the constructor), get_collection_info, delete_collection                  *)

NoCollection == [exists |-> FALSE]

\* create_collection(vectors_config=VectorParams(size=3072, distance=COSINE))
NewCollection ==
    [exists |-> TRUE, size |-> VectorSize, distance |-> "Cosine", points_count |-> 0]

\* an except clause that hands the exception on
Reraise(tried) == tried

\* the collection is created whatever the existence check reported
CreateAlways(collection_exists) == TRUE

\* if not collection_exists:
CreateNeeded(collection_exists) == ~collection_exists

\* the try block of _ensure_collection_exists: the existence check, then
\* create_collection when the check reported the collection absent. The
\* server refuses to create a collection that exists; a creation that fails
\* may or may not have taken place.
EnsureTry(coll, check, create) ==
    LET checked == <<[call |-> "collection_exists", outcome |-> check]>>
        created == Append(checked, [call |-> "create_collection", outcome |-> create])
    IN  IF check /= "ok"
        THEN [exc |-> TRUE, val |-> "collection_exists", calls |-> checked, coll |-> coll]
        ELSE IF ~CreateNeeded(coll.exists)
        THEN [exc |-> FALSE, val |-> "None", calls |-> checked, coll |-> coll]
        ELSE IF coll.exists
        THEN [exc |-> TRUE, val |-> "create_collection", calls |-> created, coll |-> coll]
        ELSE IF create = "ok"
        THEN [exc |-> FALSE, val |-> "None", calls |-> created, coll |-> NewCollection]
        ELSE [exc |-> TRUE, val |-> "create_collection", calls |-> created,
              coll |-> IF create = "fail_applied" THEN NewCollection ELSE coll]

\* except Exception as e: logger.error(...); raise
EnsureExcept(tried) == tried

\* _ensure_collection_exists, and so the constructor from that call on
EnsureCollectionExists(coll, check, create) == EnsureExcept(EnsureTry(coll, check, create))

\* the try block of get_collection_info; get_collection raises when the
\* collection is not there
CollectionInfoTry(pipe, coll, outcome) ==
    LET issued == <<[call |-> "get_collection",
                    outcome |-> IF coll.exists THEN outcome ELSE "fail"]>>
    IN  IF outcome /= "ok" \/ ~coll.exists
        THEN [exc |-> TRUE, val |-> "get_collection", calls |-> issued, coll |-> coll]
        ELSE [exc |-> FALSE,
              val |-> [name |-> pipe, vectors_count |-> coll.points_count,
                       points_count |-> coll.points_count, status |-> "green"],
              calls |-> issued, coll |-> coll]

\* except Exception as e: logger.error(...); return {}
CollectionInfoExcept(tried) ==
    IF tried.exc THEN [tried EXCEPT !.exc = FALSE, !.val = [key \in {} |-> 0]] ELSE tried

CollectionInfo(pipe, coll, outcome) ==
    CollectionInfoExcept(CollectionInfoTry(pipe, coll, outcome))

\* the try block of delete_collection; a deletion that fails may or may not
\* have taken place
DeleteCollectionTry(coll, outcome) ==
    LET issued == <<[call |-> "delete_collection", outcome |-> outcome]>>
    IN  IF outcome = "ok"
        THEN [exc |-> FALSE, val |-> "True", calls |-> issued, coll |-> NoCollection]
        ELSE [exc |-> TRUE, val |-> "delete_collection", calls |-> issued,
              coll |-> IF outcome = "fail_applied" THEN NoCollection ELSE coll]

\* except Exception as e: logger.error(...); return False
DeleteCollectionExcept(tried) ==
    IF tried.exc THEN [tried EXCEPT !.exc = FALSE, !.val = "False"] ELSE tried

DeleteCollection(coll, outcome) == DeleteCollectionExcept(DeleteCollectionTry(coll, outcome))

CollOff ==
    /\ qdrant = <<>>
    /\ qlog = <<>>

-----------------------------------------------------------------------------
(* Specification SpecSearch: one call of search_by_text on either pipeline *)

ChatOff ==
    /\ pc = "off"
    /\ request = [message |-> "", llm_model_id |-> "", is_case_rag |-> FALSE,
                  is_law_rag |-> FALSE]
    /\ messages = <<>>
    /\ rag_context = <<>>
    /\ case_results = <<>>
    /\ law_results = <<>>
    /\ case_path = "skipped"
    /\ law_path = "skipped"
    /\ trace = <<>>
    /\ llm_sent = <<>>
    /\ llm_path = "none"
    /\ llm_outcome = [kind |-> "none"]
    /\ escaped = FALSE
    /\ http = [status |-> 0, response |-> <<>>]
    /\ served = 0

InitSearch ==
    /\ spc = "call"
    /\ spipe \in {"case", "law"}
    /\ sfault \in SearchFaults
    /\ sraw \in IF sfault /= "none" THEN {<<>>}
                ELSE QueryPoints(DefaultLimit, MaxPoints, 0..MaxScore,
                                 IF spipe = "case" THEN CasePayloads ELSE LawPayloads)
    /\ sout = Return(<<>>)
    /\ ChatOff
    /\ IngestOff
    /\ ChunkOff
    /\ LawOff
    /\ CollOff

CallCaseSearch ==
    /\ spc = "call"
    /\ spipe = "case"
    /\ sout' = CaseSearchByText(sfault, sraw)
    /\ spc' = "done"
    /\ UNCHANGED <<spipe, sfault, sraw, notSearchVars>>

CallLawSearch ==
    /\ spc = "call"
    /\ spipe = "law"
    /\ sout' = LawSearchByText(sfault, sraw)
    /\ spc' = "done"
    /\ UNCHANGED <<spipe, sfault, sraw, notSearchVars>>

NextSearch == CallCaseSearch \/ CallLawSearch

SpecSearch == InitSearch /\ [][NextSearch]_vars

\* the ScoredPoint a result element was made from
PointOf(r) == [id |-> r.id, score |-> r.score, payload |-> r.payload]

IsNonIncreasing(results) ==
    \A i \in 1..(Len(results) - 1) : results[i].score >= results[i + 1].score

\* the call went through its try block to the return statement
SearchSucceeded == sfault = "none" /\ (spipe = "law" => \A i \in 1..Len(sraw) : ~IsNone(sraw[i].payload))

\* C1: whatever order the index returns its points in, the list search_by_text
\* returns (case and law) is non-increasing in score, and the list a call
\* returns from its try block is a permutation of the points the index returned.
C1_SortedPermutation ==
    spc = "done" =>
        /\ ~sout.exc
        /\ IsNonIncreasing(sout.val)
        /\ SearchSucceeded => IsPermutation(Map(sout.val, PointOf), sraw)

\* a call that got three points back with the best one last and a tie before it
C1_Witness ==
    /\ spc = "done"
    /\ SearchSucceeded
    /\ Len(sraw) = 3
    /\ sraw[1].score = sraw[2].score
    /\ sraw[2].score < sraw[3].score
    /\ sout.val[1].id = 3

\* C2: search_by_text (case and law) never raises; when embedding the query,
\* querying the index or formatting a result fails it returns the empty list.
C2_NeverRaises ==
    spc = "done" =>
        /\ ~sout.exc
        /\ ~SearchSucceeded => sout.val = <<>>

\* a law search that failed while formatting a non-empty answer of the index
C2_Witness ==
    /\ spc = "done"
    /\ spipe = "law"
    /\ sfault = "none"
    /\ ~SearchSucceeded
    /\ Len(sraw) >= 2

-----------------------------------------------------------------------------
(* Specification SpecChat: one request through the /chat endpoint *)

SearchOff ==
    /\ spc = "off"
    /\ spipe = "case"
    /\ sfault = "none"
    /\ sraw = <<>>
    /\ sout = Return(<<>>)

Messages == {"q1"}

Requests ==
    [message : Messages, llm_model_id : ModelIds, is_case_rag : BOOLEAN,
     is_law_rag : BOOLEAN]

\* payloads of the points the chat request can meet in the two collections
ChatCasePayloads == {CasePayloadFull, NonePayload}

ChatLawPayloads == {LawPayloadChunk, LawPayloadLegacy, NonePayload}

\* a low and a high score: enough for ties and for either order
ChatScores == {0, 1}

InitChat ==
    /\ pc = "recv"
    /\ request = [message |-> "", llm_model_id |-> "", is_case_rag |-> FALSE,
                  is_law_rag |-> FALSE]
    /\ messages = <<>>
    /\ rag_context = <<>>
    /\ case_results = <<>>
    /\ law_results = <<>>
    /\ case_path = "skipped"
    /\ law_path = "skipped"
    /\ trace = <<>>
    /\ llm_sent = <<>>
    /\ llm_path = "none"
    /\ llm_outcome = [kind |-> "none"]
    /\ escaped = FALSE
    /\ http = [status |-> 0, response |-> <<>>]
    /\ served = 0
    /\ SearchOff
    /\ IngestOff
    /\ ChunkOff
    /\ LawOff
    /\ CollOff

\* the new message added to the messages of the invocation before
InputMessagesKept(previous, req) ==
    Append(previous, [type |-> "human", content |-> <<req.message>>])

\* "messages": [HumanMessage(content=chat_request.message)] of input_data,
\* whatever an earlier invocation left
InputMessages(previous, req) == <<[type |-> "human", content |-> <<req.message>>]>>

\* chat(): build input_data and invoke the workflow, which enters at "rag"
ChatReceive ==
    /\ pc = "recv"
    /\ \E req \in Requests :
        /\ request' = req
        /\ messages' = InputMessages(messages, req)
    /\ rag_context' = <<>>
    /\ pc' = "rag_case"
    /\ UNCHANGED <<case_results, law_results, case_path, law_path, trace, llm_sent,
                   llm_path, llm_outcome, escaped, http, served,
                   notChatVars>>

\* rag_node, first half: the case path
RagCasePath ==
    /\ pc = "rag_case"
    /\ IF CaseRagEnabled(request)
       THEN \E construct_ok \in BOOLEAN, fault \in SearchFaults :
            \E raw \in IF construct_ok /\ fault = "none"
                       THEN QueryPoints(RagLimit, ChatMaxHits, ChatScores, ChatCasePayloads)
                       ELSE {<<>>} :
                LET done == CasePathExcept(CasePathTry(construct_ok, fault, raw, <<>>))
                IN  /\ rag_context' = done.context
                    /\ case_results' = done.results
                    /\ case_path' = done.path
                    /\ trace' = trace \o <<"CaseRAGPipeline()">>
                                \o (IF construct_ok THEN <<"case.search_by_text">> ELSE <<>>)
                    /\ escaped' = done.exc
                    /\ pc' = IF done.exc THEN "respond" ELSE "rag_law"
       ELSE /\ pc' = "rag_law"
            /\ UNCHANGED <<rag_context, case_results, case_path, trace, escaped>>
    /\ UNCHANGED <<request, messages, law_results, law_path, llm_sent, llm_path,
                   llm_outcome, http, served,
                   notChatVars>>

\* rag_node, second half: the law path, then state["rag_context"] = rag_context
RagLawPath ==
    /\ pc = "rag_law"
    /\ IF LawRagEnabled(request)
       THEN \E construct_ok \in BOOLEAN, fault \in SearchFaults :
            \E raw \in IF construct_ok /\ fault = "none"
                       THEN QueryPoints(RagLimit, ChatMaxHits, ChatScores, ChatLawPayloads)
                       ELSE {<<>>} :
                LET done == LawPathExcept(LawPathTry(construct_ok, fault, raw, rag_context))
                IN  /\ rag_context' = done.context
                    /\ law_results' = done.results
                    /\ law_path' = done.path
                    /\ trace' = trace \o <<"LawRAGPipeline()">>
                                \o (IF construct_ok THEN <<"law.search_by_text">> ELSE <<>>)
                    /\ escaped' = done.exc
                    /\ pc' = IF done.exc THEN "respond" ELSE "llm"
       ELSE /\ pc' = "llm"
            /\ UNCHANGED <<rag_context, law_results, law_path, trace, escaped>>
    /\ UNCHANGED <<request, messages, case_results, case_path, llm_sent, llm_path,
                   llm_outcome, http, served,
                   notChatVars>>

\* llm_node; its return value {"messages": [AIMessage]} is appended by add_messages
LlmNode ==
    /\ pc = "llm"
    /\ \E construct_ok \in BOOLEAN, template_ok \in BOOLEAN :
       \E outcome \in IF request.llm_model_id = "custom_llm" THEN HttpOutcomes
                      ELSE InvokeOutcomes :
            LET tried == LlmNodeTry(request.llm_model_id, messages, rag_context,
                                    construct_ok, template_ok, outcome)
                done == LlmNodeExcept(tried)
            IN  /\ llm_sent' = done.sent
                /\ llm_path' = done.path
                /\ llm_outcome' = IF done.sent /= <<>> THEN outcome ELSE [kind |-> "none"]
                /\ trace' = trace \o (IF done.sent /= <<>> THEN <<"llm">> ELSE <<>>)
                /\ escaped' = done.exc
                /\ messages' = IF done.exc THEN messages
                               ELSE Append(messages, [type |-> "ai", content |-> done.val])
                /\ pc' = IF done.exc THEN "respond" ELSE "end"
    \* the locals of rag_node are gone
    /\ case_results' = <<>>
    /\ law_results' = <<>>
    /\ UNCHANGED <<request, rag_context, case_path, law_path, http, served,
                   notChatVars>>

\* end_node returns the state; the workflow reaches END
EndNode ==
    /\ pc = "end"
    /\ pc' = "respond"
    /\ UNCHANGED <<request, messages, rag_context, case_results, law_results,
                   case_path, law_path, trace, llm_sent, llm_path, llm_outcome,
                   escaped, http, served,
                   notChatVars>>

\* chat(): ChatResponse(response=result["messages"][-1].content), or
\* HTTPException(status_code=500) when the workflow raised
ChatRespond ==
    /\ pc = "respond"
    /\ http' = IF escaped
               THEN [status |-> 500, response |-> <<"Internal server error: ">>]
               ELSE [status |-> 200, response |-> messages[Len(messages)].content]
    /\ pc' = "done"
    /\ UNCHANGED <<request, messages, rag_context, case_results, law_results,
                   case_path, law_path, trace, llm_sent, llm_path, llm_outcome,
                   escaped, served,
                   notChatVars>>

NextChat == ChatReceive \/ RagCasePath \/ RagLawPath \/ LlmNode \/ EndNode \/ ChatRespond

SpecChat == InitChat /\ [][NextChat]_vars

\* the rag step is over
RagDone == pc \in {"llm", "end", "respond", "done"}

\* the generation step is over
LlmDone == pc \in {"end", "respond", "done"}

\* the entries of the merged context of one type, in order
EntriesOf(type) == SelectSeq(rag_context, LAMBDA e : e.type = type)

\* the text of the final message
FinalText == messages[Len(messages)].content

Contains(text, fragment) == fragment \in Range(text)

PathFailed(path) == path \in {"construct", "search", "format"}

\* C3: in rag_node the two retrieval paths fail independently: a failing law
\* path leaves the case entries already appended in the merged context, a
\* failing case path does not keep the law path from running, and whatever
\* fails the step completes and the generation step runs.
C3_IndependentPaths ==
    /\ ~escaped
    /\ pc \in {"rag_case", "rag_law", "llm", "end", "respond"} => ENABLED NextChat
    /\ (pc = "llm" /\ PathFailed(law_path)) =>
            /\ EntriesOf("case") = rag_context
            /\ Len(rag_context) = Formatted(case_results)
            /\ \A i \in 1..Len(rag_context) : rag_context[i].score = case_results[i].score
    /\ (RagDone /\ request.is_law_rag) => "LawRAGPipeline()" \in Range(trace)
    /\ LlmDone => llm_path /= "none" /\ messages[Len(messages)].type = "ai"

\* the law pipeline could not be constructed after two case entries were
\* appended, and the request was answered
C3_Witness ==
    /\ pc = "done"
    /\ case_path = "ok"
    /\ law_path = "construct"
    /\ Len(rag_context) = 2
    /\ http.status = 200

\* C4: for every combination of is_case_rag and is_law_rag the merged context
\* is the case results in descending score order (if is_case_rag) followed by
\* the law results in descending score order (if is_law_rag); a pipeline whose
\* flag is false is never constructed or queried and contributes no entry; no
\* law entry precedes a case entry.
C4_MergedContext ==
    RagDone =>
        /\ rag_context = EntriesOf("case") \o EntriesOf("law")
        /\ IsNonIncreasing(EntriesOf("case"))
        /\ IsNonIncreasing(EntriesOf("law"))
        /\ ~request.is_case_rag =>
                /\ EntriesOf("case") = <<>>
                /\ {"CaseRAGPipeline()", "case.search_by_text"} \cap Range(trace) = {}
        /\ ~request.is_law_rag =>
                /\ EntriesOf("law") = <<>>
                /\ {"LawRAGPipeline()", "law.search_by_text"} \cap Range(trace) = {}
        /\ (pc = "llm" /\ case_path = "ok") =>
                /\ Len(EntriesOf("case")) = Len(case_results)
                /\ \A i \in 1..Len(case_results) :
                        EntriesOf("case")[i].score = case_results[i].score
        /\ (pc = "llm" /\ law_path = "ok") =>
                /\ Len(EntriesOf("law")) = Len(law_results)
                /\ \A i \in 1..Len(law_results) :
                        EntriesOf("law")[i].score = law_results[i].score

\* only the case flag is set and two case results of different score came back
C4_Witness ==
    /\ pc = "llm"
    /\ request.is_case_rag
    /\ ~request.is_law_rag
    /\ Len(rag_context) = 2
    /\ rag_context[1].score > rag_context[2].score

\* C5: no exception leaves the generation layer: for every llm_model_id and
\* every failure while constructing the agent or invoking the model, llm_node
\* ends with a text message (an apology on failure) and the endpoint answers
\* 200 with that text.
C5_GenerationNeverRaises ==
    /\ ~escaped
    /\ LlmDone =>
        /\ messages[Len(messages)].type = "ai"
        /\ llm_path /= "ok" => FinalText[1] = "I apologize"
    /\ pc = "done" => http = [status |-> 200, response |-> FinalText]

\* an unsupported model id was answered with an apology and status 200
C5_Witness ==
    /\ pc = "done"
    /\ request.llm_model_id = "llama"
    /\ http.status = 200
    /\ http.response[1] = "I apologize"

\* the marks by which the apology strings of the custom backend differ
ApologyMarks == {"API error", "timed out", "network error", "unexpected error"}

MarksIn(text) == ApologyMarks \cap Range(text)

\* C6: for the custom backend a non-200 status, a socket timeout and any other
\* network exception each give their own apology string, distinct from the
\* other two; the timeout string apologises and mentions the timeout;
\* generate_response returns that string and does not raise.
C6_CustomApologies ==
    (LlmDone /\ request.llm_model_id = "custom_llm" /\ llm_outcome.kind /= "none") =>
        /\ ~escaped
        /\ (llm_outcome.kind = "reply" /\ llm_outcome.status /= 200) =>
                /\ MarksIn(FinalText) = {"API error"}
                /\ Contains(FinalText, "I apologize")
        /\ (llm_outcome.kind = "raise" /\ llm_outcome.class = "Timeout") =>
                /\ MarksIn(FinalText) = {"timed out"}
                /\ Contains(FinalText, "I apologize")
        /\ (llm_outcome.kind = "raise" /\ llm_outcome.class = "ConnectionError") =>
                /\ MarksIn(FinalText) = {"network error"}
                /\ Contains(FinalText, "I apologize")

\* the custom endpoint timed out and the request was answered
C6_Witness ==
    /\ pc = "done"
    /\ request.llm_model_id = "custom_llm"
    /\ llm_outcome.kind = "raise"
    /\ llm_outcome.class = "Timeout"
    /\ http.status = 200

\* what the model was given as the user's turn
SentUserInput ==
    IF "payload" \in DOMAIN llm_sent[1] THEN llm_sent[1].payload.user_prompt
    ELSE LastOfType(llm_sent[1].prompt, "human", <<>>)

\* both flags false: no pipeline constructed or queried, empty context, and
\* the model input is the user message alone
NoRagInput ==
    /\ Range(trace) \subseteq {"llm"}
    /\ rag_context = <<>>
    /\ llm_sent /= <<>> =>
        /\ SentUserInput = <<request.message>>
        /\ "payload" \in DOMAIN llm_sent[1] => llm_sent[1].payload.rag_context = <<>>

\* C7: with both flags false no pipeline is constructed or queried, the
\* generation step receives the empty context, the model input is the user
\* message alone, and the response is a non-empty text.
C7_Original ==
    (LlmDone /\ ~request.is_case_rag /\ ~request.is_law_rag) =>
        /\ NoRagInput
        /\ FinalText /= <<>>

\* C7, the part the code keeps: the first three conjuncts as claimed; every
\* failure gives a non-empty apology, and a reply of the model or the endpoint
\* is handed on as it is, the empty one included.
C7_NoRagResponse ==
    (LlmDone /\ ~request.is_case_rag /\ ~request.is_law_rag) =>
        /\ NoRagInput
        /\ llm_path /= "ok" => FinalText /= <<>>
        /\ llm_path = "ok" => FinalText = llm_outcome.text

\* both flags false, the custom endpoint answered 200 without text, and the
\* request was answered 200 with the empty response
C7_Witness ==
    /\ pc = "done"
    /\ ~request.is_case_rag
    /\ ~request.is_law_rag
    /\ request.llm_model_id = "custom_llm"
    /\ llm_outcome = [kind |-> "reply", status |-> 200, text |-> <<>>]
    /\ SentUserInput = <<request.message>>
    /\ http = [status |-> 200, response |-> <<>>]

-----------------------------------------------------------------------------
(* Specification SpecCases: one call of add_cases *)

BatchSizes == -1..MaxBatch

StartIndexes == -2..(MaxCases + 1)

\* the collection before the call: empty, or holding a point from earlier
InitialIndexes ==
    {<<>>, (0 :> [vector |-> [embedding_of |-> <<"old">>], payload |-> CasePayloadFull])}

InitCases ==
    /\ \E file \in SeqUpTo(CaseRecords, MaxCases), batch_size \in BatchSizes,
          start_index \in StartIndexes :
            ac = CallAddCases(file, batch_size, start_index, <<>>).frame
    /\ index0 \in InitialIndexes
    /\ case_index = index0
    /\ calls = <<>>
    /\ outcomes = <<>>
    /\ SearchOff
    /\ ChatOff
    /\ ChunkOff
    /\ LawOff
    /\ CollOff

\* the configuration the variables hold
Config == [frame |-> ac, index |-> case_index, calls |-> calls]

Becomes(cfg, outcome) ==
    /\ ac' = cfg.frame
    /\ case_index' = cfg.index
    /\ calls' = cfg.calls
    /\ outcomes' = Append(outcomes, outcome)
    /\ UNCHANGED <<index0, notIngestVars>>

\* with open(json_file_path) ... json.load(file), up to the first batch
AddCasesOpen ==
    /\ ac.pc = "open"
    /\ \E outcome \in {"ok", "fail"} : Becomes(OpenStep(Config, outcome), outcome)

\* self.embeddings.embed_query(content) for the next case of the batch
AddCasesEmbed ==
    /\ ac.pc = "embed"
    /\ \E outcome \in {"ok", "fail"} : Becomes(EmbedStep(Config, outcome), outcome)

\* self.qdrant_client.upload_points(...) for the batch
AddCasesUpload ==
    /\ ac.pc = "upload"
    /\ \E outcome \in {"ok", "fail", "fail_applied"} :
            Becomes(UploadStep(Config, outcome), outcome)

NextCases == AddCasesOpen \/ AddCasesEmbed \/ AddCasesUpload

SpecCases == InitCases /\ [][NextCases]_vars

\* the ops of the calls made so far
Ops == {calls[i].op : i \in 1..Len(calls)}

\* the file was read
FileRead == outcomes /= <<>> /\ outcomes[1] = "ok"

\* C8: add_cases with start_index >= the number of records of the file (an
\* empty file with start_index 0 included) returns True, makes no embedding
\* call and no upload call, and leaves the index unchanged.
C8_NothingToDo ==
    (ac.pc = "done" /\ FileRead /\ ac.start_arg >= Len(ac.file)) =>
        /\ ac.ret = "True"
        /\ Ops \cap {"embed_query", "upload_points"} = {}
        /\ case_index = index0

\* a call that starts right at the end of a non-empty file, on a collection
\* that already holds a point
C8_Witness ==
    /\ ac.pc = "done"
    /\ FileRead
    /\ Len(ac.file) >= 2
    /\ ac.start_arg = Len(ac.file)
    /\ index0 /= <<>>

\* C9: for every file, batch size and outcome of the external calls, add_cases
\* with a negative start_index makes the same embedding and upload calls (same
\* batches, same point ids) and returns the same value as with start_index = 0.
C9_NegativeIsZero ==
    ac.start_arg < 0 =>
        LET zero == Replay(CallAddCases(ac.file, ac.batch_size, 0, index0), outcomes)
        IN  /\ zero.calls = calls
            /\ zero.index = case_index
            /\ zero.frame.pc = ac.pc
            /\ zero.frame.ret = ac.ret

\* a call with start_index -2 that uploaded two batches and returned True
C9_Witness ==
    /\ ac.start_arg = -2
    /\ ac.pc = "done"
    /\ ac.ret = "True"
    /\ Cardinality({i \in 1..Len(calls) : calls[i].op = "upload_points"}) = 2

\* the id lists of the upload calls made so far, in order
UploadedBatches ==
    LET ups == SelectSeq(calls, LAMBDA c : c.op = "upload_points")
    IN  [k \in 1..Len(ups) |-> [j \in 1..Len(ups[k].points) |-> ups[k].points[j].id]]

\* the batches of range(start, total, batch_size) for batch_size >= 1, as id lists
ExpectedBatches(start, total, batch_size) ==
    LET n == IF start >= total THEN 0 ELSE (total - start + batch_size - 1) \div batch_size
        first(k) == start + (k - 1) * batch_size
    IN  [k \in 1..n |-> [j \in 1..(Min(first(k) + batch_size, total) - first(k)) |->
                            first(k) + j - 1]]

\* C10: add_cases returns True only if every batch from start_index to the end
\* of the file was uploaded without an exception; the first exception (file
\* read, embedding, upload) ends the call with False, no later batch is
\* embedded or uploaded and no batch is retried.
C10_AllOrFalse ==
    /\ \A i \in 1..(Len(outcomes) - 1) : outcomes[i] = "ok"
    /\ Len(calls) = Len(outcomes)
    /\ (\E i \in 1..Len(outcomes) : outcomes[i] /= "ok") =>
            ac.pc = "done" /\ ac.ret = "False"
    /\ (ac.pc = "done" /\ ac.ret = "True") =>
            /\ \A i \in 1..Len(outcomes) : outcomes[i] = "ok"
            /\ ac.batch_size >= 1 =>
                    UploadedBatches = ExpectedBatches(Max(ac.start_arg, 0), Len(ac.file),
                                                      ac.batch_size)
    /\ \A i, j \in 1..Len(calls) : i < j => calls[i] /= calls[j]

\* the second batch failed in its upload after the first was uploaded
C10_Witness ==
    /\ ac.pc = "done"
    /\ ac.ret = "False"
    /\ Len(UploadedBatches) = 2
    /\ outcomes[Len(outcomes)] = "fail"
    /\ Len(ac.file) = 3

\* the upload calls made so far, in order
Uploads == SelectSeq(calls, LAMBDA c : c.op = "upload_points")

\* the points of all upload calls made so far, in order
RECURSIVE PointsOf(_)
PointsOf(ups) == IF ups = <<>> THEN <<>> ELSE Head(ups).points \o PointsOf(Tail(ups))

\* C11: in add_cases every uploaded point has id = batch_start + its offset in
\* the batch, which is the 0-based index of its record in the file; each batch
\* is sent in one upload call; a successful call with batch_size >= 1 uploads
\* exactly the records with index in [max(start_index, 0), total), each once,
\* with pairwise distinct ids.
C11_PointIds ==
    LET start == Max(ac.start_arg, 0)
        sent == PointsOf(Uploads)
    IN  /\ \A k \in 1..Len(Uploads) : \A j \in 1..Len(Uploads[k].points) :
              LET point == Uploads[k].points[j]
                  batch_start == start + (k - 1) * ac.batch_size
              IN  /\ point.id = batch_start + (j - 1)
                  /\ point.id \in 0..(Len(ac.file) - 1)
                  /\ point = CasePoint(point.id, 0, ac.file[point.id + 1])
        /\ \A k \in 1..Len(Uploads) :
              Len(Uploads[k].points) = Min(ac.batch_size, Len(ac.file) - start - (k - 1) * ac.batch_size)
        /\ \A i, j \in 1..Len(sent) : i /= j => sent[i].id /= sent[j].id
        /\ (ac.pc = "done" /\ ac.ret = "True" /\ ac.batch_size >= 1) =>
              /\ Len(sent) = Max(Len(ac.file) - start, 0)
              /\ \A i \in 1..Len(sent) : sent[i].id = start + i - 1
              /\ \A id \in start..(Len(ac.file) - 1) :
                    /\ id \in DOMAIN case_index
                    /\ case_index[id].payload = CasePayloadOf(ac.file[id + 1])

\* a resumed call (start_index 1) that uploaded the rest of a three-record
\* file in two batches and returned True
C11_Witness ==
    /\ ac.pc = "done"
    /\ ac.ret = "True"
    /\ ac.start_arg = 1
    /\ ac.batch_size = 1
    /\ Len(ac.file) = 3
    /\ Len(Uploads) = 2
    /\ Uploads[2].points[1].id = 2

-----------------------------------------------------------------------------
(* Specification SpecChunks: one call of _create_law_chunks *)

\* what law texts are put together from: 600 letters, 1000 letters, a space,
\* a paragraph break, 600 spaces
Segments ==
    {Repeat("a", 600), Repeat("b", 1000), <<" ">>, <<"\n", "\n">>, Repeat(" ", 600)}

LawTexts == {Concat(segs) : segs \in SeqUpTo(Segments, MaxSegments)}

PartSections == {<<"s", "1">>}

\* a record with or without either key, either value a string or null; and
\* a null in the place of a record
LawRefs ==
    LET keys == SUBSET {"part_section", "law_text"}
        Values(key) == IF key = "part_section"
                       THEN {JStr(p) : p \in PartSections} \cup {NonePayload}
                       ELSE {JStr(t) : t \in LawTexts} \cup {NonePayload}
    IN  UNION {{r \in [ks -> UNION {Values(key) : key \in ks}] :
                    \A key \in ks : r[key] \in Values(key)} : ks \in keys}
        \cup {NonePayload}

InitChunks ==
    /\ kpc = "call"
    /\ law_ref \in LawRefs
    /\ chunked = [exc |-> FALSE, val |-> <<>>, split_calls |-> 0]
    /\ SearchOff
    /\ ChatOff
    /\ IngestOff
    /\ LawOff
    /\ CollOff

CallCreateLawChunks ==
    /\ kpc = "call"
    /\ chunked' = CreateLawChunks(law_ref)
    /\ kpc' = "done"
    /\ UNCHANGED <<law_ref, notChunkVars>>

NextChunks == CallCreateLawChunks

SpecChunks == InitChunks /\ [][NextChunks]_vars

\* the record is a dict whose part_section and law_text are strings or missing
WellFormed(ref) ==
    /\ ~IsNone(ref)
    /\ \A key \in DOMAIN ref : ~IsNone(ref[key])

\* law_ref.get('law_text', '') of a well-formed record
LawTextOf(ref) == Get(ref, "law_text", JStr(<<>>)).str

\* C12: a law record whose law_text has at most 1000 characters (missing and
\* empty included) comes back as exactly one chunk: chunk_content is the
\* whole law_text unchanged, chunk_index 0, total_chunks 1, and the text
\* splitter was not invoked.
C12_ShortTextOneChunk ==
    (kpc = "done" /\ WellFormed(law_ref) /\ Len(LawTextOf(law_ref)) <= 1000) =>
        /\ ~chunked.exc
        /\ Len(chunked.val) = 1
        /\ chunked.val[1].chunk_content = LawTextOf(law_ref)
        /\ chunked.val[1].chunk_index = 0
        /\ chunked.val[1].total_chunks = 1
        /\ chunked.split_calls = 0

\* a law_text of exactly 1000 characters came back as one chunk
C12_Witness ==
    /\ kpc = "done"
    /\ WellFormed(law_ref)
    /\ "law_text" \in DOMAIN law_ref
    /\ Len(LawTextOf(law_ref)) = 1000
    /\ Len(chunked.val) = 1
    /\ chunked.split_calls = 0

\* C13: a law_text of more than 1000 characters comes back as n > 1 chunks
\* numbered 0..n-1 in order, each with total_chunks = n; chunk_index is below
\* total_chunks, and total_chunks is 1 exactly when law_text has at most 1000
\* characters.
C13_Original ==
    (kpc = "done" /\ WellFormed(law_ref)) =>
        LET n == Len(chunked.val)
        IN  /\ ~chunked.exc
            /\ Len(LawTextOf(law_ref)) > 1000 => n > 1
            /\ \A k \in 1..n :
                /\ chunked.val[k].chunk_index = k - 1
                /\ chunked.val[k].total_chunks = n
                /\ chunked.val[k].chunk_index < chunked.val[k].total_chunks
                /\ chunked.val[k].total_chunks = 1 <=> Len(LawTextOf(law_ref)) <= 1000

\* C13, the part the code keeps: the chunks are numbered 0..n-1 in order,
\* each carries total_chunks = n, and a law_text of at most 1000 characters
\* has total_chunks = 1.
C13_ChunkOrdinals ==
    (kpc = "done" /\ WellFormed(law_ref)) =>
        LET n == Len(chunked.val)
        IN  /\ ~chunked.exc
            /\ \A k \in 1..n :
                /\ chunked.val[k].chunk_index = k - 1
                /\ chunked.val[k].total_chunks = n
                /\ chunked.val[k].chunk_index < chunked.val[k].total_chunks
                /\ Len(LawTextOf(law_ref)) <= 1000 => chunked.val[k].total_chunks = 1

\* a law_text of 1001 characters, 1000 letters and a space, came back as a
\* single chunk with total_chunks = 1, from the splitter
C13_Witness ==
    /\ kpc = "done"
    /\ WellFormed(law_ref)
    /\ LawTextOf(law_ref) = Repeat("b", 1000) \o <<" ">>
    /\ chunked.split_calls = 1
    /\ Len(chunked.val) = 1
    /\ chunked.val[1].total_chunks = 1

\* a law_text of 1200 spaces came back as no chunk at all
C13_NoChunk ==
    /\ kpc = "done"
    /\ WellFormed(law_ref)
    /\ Len(LawTextOf(law_ref)) = 1200
    /\ chunked.split_calls = 1
    /\ ~chunked.exc
    /\ chunked.val = <<>>

\* the chunks can be laid over the text in order, the first at the first
\* character, none starting before the one ahead of it or leaving a gap
\* after it; ends is where the last chunk can end
ChunkEnds(text, chunks) ==
    LET Step(st, k) ==
            LET len == Len(chunks[k].chunk_content)
            IN  {<<s, s + len - 1>> : s \in
                    {s \in 1..(Len(text) - len + 1) :
                        /\ IF k = 1 THEN s = 1
                           ELSE \E prev \in st : prev[1] <= s /\ s <= prev[2] + 1
                        /\ SubSeq(text, s, s + len - 1) = chunks[k].chunk_content}}
    IN  {p[2] : p \in Loop(Step, {<<0, 0>>}, 1, Len(chunks))}

\* C14: the chunker neither loses nor reorders text: the chunks of a record,
\* in order and with the overlap discounted, cover the law_text from its
\* first to its last character.
C14_Original ==
    (kpc = "done" /\ WellFormed(law_ref)) =>
        /\ ~chunked.exc
        /\ IF LawTextOf(law_ref) = <<>>
           THEN \A k \in 1..Len(chunked.val) : chunked.val[k].chunk_content = <<>>
           ELSE Len(LawTextOf(law_ref)) \in ChunkEnds(LawTextOf(law_ref), chunked.val)

\* 600 letters followed by 600 spaces came back as one chunk, the letters:
\* the last 600 characters of the law_text are in no chunk
C14_Witness ==
    /\ kpc = "done"
    /\ WellFormed(law_ref)
    /\ LawTextOf(law_ref) = Repeat("a", 600) \o Repeat(" ", 600)
    /\ Len(chunked.val) = 1
    /\ chunked.val[1].chunk_content = Repeat("a", 600)

\* C14, the part the code keeps: a law_text of at most 1000 characters is
\* its own single chunk, and no chunk of a longer one is empty, starts or
\* ends with whitespace, or is longer than chunk_size.
C14_ChunksStripped ==
    (kpc = "done" /\ WellFormed(law_ref)) =>
        IF Len(LawTextOf(law_ref)) <= 1000
        THEN Concat([k \in 1..Len(chunked.val) |-> chunked.val[k].chunk_content])
                = LawTextOf(law_ref)
        ELSE \A k \in 1..Len(chunked.val) :
                LET c == chunked.val[k].chunk_content
                IN  /\ c # <<>>
                    /\ c[1] \notin Whitespace
                    /\ c[Len(c)] \notin Whitespace
                    /\ Len(c) <= ChunkSize

-----------------------------------------------------------------------------
(* Specifications SpecLawFile: one call of add_law_references, and        *)
(* SpecLawFiles: one call of add_multiple_law_files                       *)

LawFileData == SeqUpTo(IngestLawRefs, MaxLawRecords)

LawBatchSizes == 1..MaxBatch

LawStartIndexes == -1..MaxLawRecords

\* the collection before the call: empty, or one point left by an earlier run
LawInitialIndexes ==
    {<<>>, (1 :> [vector |-> [embedding_of |-> <<"old">>], payload |-> LawPayloadChunk])}

\* the collection an interrupted add_law_references run leaves behind after
\* uploading a first batch that holds the two-chunk record alone: its chunks
\* at ids 0 and 1
InterruptedIndex(chunks_of) ==
    Upsert(<<>>, [k \in 1..Len(chunks_of[LawRefLong].val) |->
                    LawPoint(k - 1, chunks_of[LawRefLong].val[k], LawRefLong)])

\* a path of add_multiple_law_files: no such file, or a file of one or more
\* well-formed records
LawPaths ==
    {[exists |-> FALSE]}
    \cup {[exists |-> TRUE, data |-> data] :
            data \in SeqUpTo({LawRefShort, LawRefLong}, MaxLawRecords) \ {<<>>}}

\* the records of the files of a list of paths, in order
RecordsOf(paths) ==
    Concat([i \in 1..Len(paths) |-> IF paths[i].exists THEN paths[i].data ELSE <<>>])

LawPathLists ==
    {paths \in SeqUpTo(LawPaths, MaxLawFiles) : Len(RecordsOf(paths)) <= MaxLawRecords}

\* the configuration the variables hold
LawConfig == [frame |-> lf, index |-> law_index, calls |-> law_calls]

LawBecomes(cfg) ==
    /\ lf' = cfg.frame
    /\ law_index' = cfg.index
    /\ law_calls' = cfg.calls
    /\ UNCHANGED <<mf, law_index0, law_chunks, notLawVars>>

\* what the next external call may do: anything, until MaxFaults calls failed
LawOutcomes(all) ==
    IF Cardinality({i \in 1..Len(law_calls) : law_calls[i].outcome /= "ok"}) < MaxFaults
    THEN all ELSE {"ok"}

\* with open(json_file_path) ... json.load(file), up to the first external call
LawOpen ==
    /\ lf.pc = "open"
    /\ \E outcome \in LawOutcomes({"ok", "fail"}) : LawBecomes(LawOpenStep(LawConfig, outcome))

\* self.embeddings.embed_query(...) for the next chunk
LawEmbed ==
    /\ lf.pc = "embed"
    /\ \E outcome \in LawOutcomes({"ok", "fail"}) : LawBecomes(LawEmbedStep(LawConfig, outcome))

\* self.qdrant_client.upload_points(...) for the batch
LawUpload ==
    /\ lf.pc = "upload"
    /\ \E outcome \in LawOutcomes({"ok", "fail", "fail_applied"}) :
            LawBecomes(LawUploadStep(LawConfig, outcome))

\* add_law_references called with a start_index, or the helper of
\* add_multiple_law_files called with a start_point_id
InitLawFile ==
    /\ law_chunks = LawChunksOf
    /\ law_index0 \in LawInitialIndexes \cup {InterruptedIndex(law_chunks)}
    /\ mf = [pc |-> "off"]
    /\ \E file \in LawFileData, batch_size \in LawBatchSizes :
        \/ \E start_index \in LawStartIndexes :
                lf = CallAddLaw("single", file, batch_size, start_index, 0)
        \/ \E start_point_id \in 0..1 :
                lf = CallAddLaw("custom", file, batch_size, 0, start_point_id)
    /\ law_index = law_index0
    /\ law_calls = <<>>
    /\ SearchOff
    /\ ChatOff
    /\ IngestOff
    /\ ChunkOff
    /\ CollOff

NextLawFile == LawOpen \/ LawEmbed \/ LawUpload

SpecLawFile == InitLawFile /\ [][NextLawFile]_vars

InitLawFiles ==
    /\ law_chunks = LawChunksOf
    /\ \E paths \in LawPathLists, batch_size \in LawBatchSizes :
            mf = CallAddMultiple(paths, batch_size)
    /\ lf = [pc |-> "off"]
    /\ law_index0 \in LawInitialIndexes
    /\ law_index = law_index0
    /\ law_calls = <<>>
    /\ SearchOff
    /\ ChatOff
    /\ IngestOff
    /\ ChunkOff
    /\ CollOff

\* the count query before the first file, then on to the first file
AddMultipleCount ==
    /\ mf.pc = "count"
    /\ \E outcome \in LawOutcomes({"ok", "fail"}) :
        LET info == GetCollectionInfo(law_index, outcome)
            seeded == [mf EXCEPT !.current_point_id = Get(info, "points_count", 0)]
            next == EnterNextFile(seeded, lf)
        IN  /\ mf' = next[1]
            /\ lf' = next[2]
            /\ law_calls' = Append(law_calls, [op |-> "get_collection", outcome |-> outcome])
    /\ UNCHANGED <<law_index, law_index0, law_chunks, notLawVars>>

\* the failure of a file passed over: on to the next file
AddMultiplePassesOver ==
    /\ mf.pc = "helper"
    /\ lf.pc = "done"
    /\ lf.ret = "False"
    /\ LET next == EnterNextFile(mf, lf)
       IN  /\ mf' = next[1]
           /\ lf' = next[2]
    /\ UNCHANGED <<law_index, law_index0, law_calls, law_chunks, notLawVars>>

\* if not success: return False
AddMultipleFailed ==
    /\ mf.pc = "helper"
    /\ lf.pc = "done"
    /\ lf.ret = "False"
    /\ mf' = [mf EXCEPT !.pc = "done", !.ret = "False"]
    /\ UNCHANGED <<lf, law_index, law_index0, law_calls, law_chunks, notLawVars>>

\* the count query after a file, then on to the next file
AddMultipleRecount ==
    /\ mf.pc = "helper"
    /\ lf.pc = "done"
    /\ lf.ret = "True"
    /\ \E outcome \in LawOutcomes({"ok", "fail"}), reopen \in {"ok", "fail"} :
        LET info == GetCollectionInfo(law_index, outcome)
            updated == [mf EXCEPT !.current_point_id =
                            UpdatePointId(info, @, lf.file, reopen)]
            next == EnterNextFile(updated, lf)
        IN  /\ mf' = next[1]
            /\ lf' = next[2]
            /\ law_calls' = Append(law_calls, [op |-> "get_collection", outcome |-> outcome])
    /\ UNCHANGED <<law_index, law_index0, law_chunks, notLawVars>>

NextLawFiles ==
    \/ AddMultipleCount
    \/ LawOpen
    \/ LawEmbed
    \/ LawUpload
    \/ AddMultipleFailed
    \/ AddMultipleRecount

SpecLawFiles == InitLawFiles /\ [][NextLawFiles]_vars

\* the upload_points calls of the law ingestion so far
LawUploads == SelectSeq(law_calls, LAMBDA c : c.op = "upload_points")

\* its embed_query calls that succeeded
LawEmbedded == SelectSeq(law_calls, LAMBDA c : c.op = "embed_query" /\ c.outcome = "ok")

\* its count queries: the first before any file, one more after each file
LawCounts == SelectSeq(law_calls, LAMBDA c : c.op = "get_collection")

\* no batch-level failure: the file was read and every upload call succeeded
NoBatchFailure ==
    \A i \in 1..Len(law_calls) :
        law_calls[i].op \in {"open", "upload_points"} => law_calls[i].outcome = "ok"

\* all ids sent in upload calls, in order
UploadedIds == Concat([k \in 1..Len(LawUploads) |-> LawUploads[k].ids])

\* the chunks of the records of a file whose chunking does not raise
ChunkCount(file) ==
    Len(Concat([i \in 1..Len(file) |->
            IF law_chunks[file[i]].exc THEN <<>> ELSE law_chunks[file[i]].val]))

\* the call went through every batch: each chunk of each record was handed to
\* the embedder once, and each chunk embedded was uploaded
WholeFileProcessed ==
    /\ Cardinality({i \in 1..Len(law_calls) : law_calls[i].op = "embed_query"})
            = ChunkCount(lf.file)
    /\ Len(UploadedIds) = Len(LawEmbedded)

\* C15: in the helper of add_multiple_law_files a failure while chunking a
\* record or embedding a chunk is skipped: unless the file read or an upload
\* call fails, every other chunk is embedded and uploaded, later batches are
\* processed and the file reports success.
C15_Original ==
    (lf.pc = "done" /\ lf.mode = "custom" /\ NoBatchFailure) =>
        /\ lf.ret = "True"
        /\ WholeFileProcessed

\* C15, the part the code keeps: the same, for files in which every record
\* whose chunking raises is a dict with a string (or no) part_section.
C15_SkipsWhatItsHandlerSurvives ==
    (/\ lf.pc = "done" /\ lf.mode = "custom" /\ NoBatchFailure
     /\ \A i \in 1..Len(lf.file) : ~RecordExceptRaises(lf.file[i])) =>
        /\ lf.ret = "True"
        /\ WholeFileProcessed

\* a record with a null part_section ahead of a good record, one batch: no
\* external call failed, nothing was uploaded and the helper returned False
C15_Witness ==
    /\ lf.pc = "done"
    /\ lf.mode = "custom"
    /\ lf.file = <<LawRefNoSection, LawRefShort>>
    /\ lf.batch_size = 2
    /\ \A i \in 1..Len(law_calls) : law_calls[i].outcome = "ok"
    /\ LawUploads = <<>>
    /\ lf.ret = "False"

\* one chunk of a two-chunk record failed to embed: it was counted, the other
\* chunk and the next record were uploaded, and the helper returned True
C15_ChunkSkipped ==
    /\ lf.pc = "done"
    /\ lf.mode = "custom"
    /\ lf.file = <<LawRefLong, LawRefShort>>
    /\ lf.batch_size = 2
    /\ lf.start_point_id = 0
    /\ Len(LawEmbedded) = 2
    /\ LawUploads = <<[op |-> "upload_points", outcome |-> "ok", ids |-> <<0, 1>>,
                       skipped_count |-> 1]>>
    /\ lf.ret = "True"

\* C16: in add_law_references an exception while chunking a record or
\* embedding a chunk is caught for that record or chunk: unless the file read
\* or an upload call fails, the batch continues, the remaining chunks are
\* uploaded and the call returns True.
C16_Original ==
    (lf.pc = "done" /\ lf.mode = "single" /\ NoBatchFailure) =>
        /\ lf.ret = "True"
        /\ (~NothingToDo(lf.start_index, Len(lf.file))) =>
                Len(UploadedIds) = Len(LawEmbedded) /\ Len(LawUploads) >= 1

\* C16, what the code does: a failed embedding is the last thing the call
\* does, and the call returns False; it returns True only when no external
\* call failed and no record it reached raised in chunking.
C16_AnyFailureAborts ==
    (lf.pc = "done" /\ lf.mode = "single") =>
        /\ \A i \in 1..Len(law_calls) :
                law_calls[i].outcome /= "ok" => i = Len(law_calls) /\ lf.ret = "False"
        /\ lf.ret = "True" =>
                \A i \in (lf.start_index + 1)..Len(lf.file) : ~law_chunks[lf.file[i]].exc
        /\ (lf.ret = "False" /\ \A i \in 1..Len(law_calls) : law_calls[i].outcome = "ok") =>
                \E i \in (lf.start_index + 1)..Len(lf.file) : law_chunks[lf.file[i]].exc

\* the embedding of the second chunk of a record failed: the first chunk,
\* already embedded, was never uploaded and the call returned False
C16_Witness ==
    /\ lf.pc = "done"
    /\ lf.mode = "single"
    /\ lf.file = <<LawRefLong, LawRefShort>>
    /\ lf.batch_size = 2
    /\ Len(LawEmbedded) = 1
    /\ law_calls[Len(law_calls)] = [op |-> "embed_query", outcome |-> "fail",
                                    record |-> 0, chunk_idx |-> 1]
    /\ LawUploads = <<>>
    /\ lf.ret = "False"

\* C17: in add_law_references point ids go up by one per chunk, and the id of
\* every uploaded point is batch_start, the index of the first record of its
\* batch, plus the number of chunks that preceded it in its batch.
C17_IdsFromBatchStart ==
    (lf.mode = "single") =>
        \A k \in 1..Len(LawUploads) : \A j \in 1..Len(LawUploads[k].ids) :
            LawUploads[k].ids[j] = lf.start_index + (k - 1) * lf.batch_size + (j - 1)

\* C17 as stated: the id of every uploaded point is start_index plus the
\* number of chunks that preceded it in its batch, in every batch of the call.
C17_Original ==
    (lf.mode = "single") =>
        \A k \in 1..Len(LawUploads) : \A j \in 1..Len(LawUploads[k].ids) :
            LawUploads[k].ids[j] = lf.start_index + (j - 1)

\* a two-chunk record and a one-chunk record in batches of one: ids 0 and 1
\* in the first batch, id 1 in the second
C17_Witness ==
    /\ lf.pc = "done"
    /\ lf.mode = "single"
    /\ lf.ret = "True"
    /\ lf.start_index = 0
    /\ lf.file = <<LawRefLong, LawRefShort>>
    /\ lf.batch_size = 1
    /\ Len(LawUploads) = 2
    /\ LawUploads[1].ids = <<0, 1>>
    /\ LawUploads[2].ids = <<1>>

\* C18: within one call of add_multiple_law_files in which every count query
\* succeeds, no two uploaded points have the same id, within a batch, across
\* the batches of a file or across files, and no uploaded point has the id of
\* a point that was in the collection when the call started.
C18_Original ==
    (mf.pc /= "off" /\ \A i \in 1..Len(LawCounts) : LawCounts[i].outcome = "ok") =>
        /\ \A i, j \in 1..Len(UploadedIds) : i /= j => UploadedIds[i] /= UploadedIds[j]
        /\ \A i \in 1..Len(UploadedIds) : UploadedIds[i] \notin DOMAIN law_index0

\* C18, the part the code keeps: the ids of one upload call are consecutive,
\* from the starting id of a file of the call or above.
C18_DistinctWithinBatch ==
    (mf.pc /= "off") =>
        \A k \in 1..Len(LawUploads) : \A j \in 1..Len(LawUploads[k].ids) :
            /\ LawUploads[k].ids[j] = LawUploads[k].ids[1] + (j - 1)
            /\ \E i \in 1..Len(mf.starts) : LawUploads[k].ids[1] >= mf.starts[i]

\* one file, a two-chunk record and a one-chunk record, batches of one, an
\* empty collection and nothing failing: ids 0 and 1, then id 1 again, and
\* the collection ends with two points for three chunks
C18_Witness ==
    /\ mf.pc = "done"
    /\ mf.ret = "True"
    /\ mf.batch_size = 1
    /\ mf.paths = <<[exists |-> TRUE, data |-> <<LawRefLong, LawRefShort>>]>>
    /\ law_index0 = <<>>
    /\ \A i \in 1..Len(law_calls) : law_calls[i].outcome = "ok"
    /\ UploadedIds = <<0, 1, 1>>
    /\ DOMAIN law_index = {0, 1}

\* the i-th file that exists
ExistingFile(i) ==
    SelectSeq(mf.paths, LAMBDA path : path.exists)[i].data

\* C19: when the count query after a file fails, the starting id of the next
\* file is that of the file just processed plus twice its number of records,
\* or plus 100 when the file cannot be read again; either way it is greater.
C19_Original ==
    (mf.pc /= "off") =>
        \A i \in 1..(Len(mf.starts) - 1) :
            LawCounts[i + 1].outcome = "fail" =>
                /\ mf.starts[i + 1] \in {mf.starts[i] + 2 * Len(ExistingFile(i)),
                                         mf.starts[i] + 100}
                /\ mf.starts[i + 1] > mf.starts[i]

\* C19, what the code does: get_collection_info turns a failed query into
\* {}, so the starting id stays where it was; after a query that succeeds it
\* is the number of points of the collection at that time.
C19_FailedCountKeepsId ==
    (mf.pc /= "off") =>
        \A i \in 1..(Len(mf.starts) - 1) :
            LawCounts[i + 1].outcome = "fail" => mf.starts[i + 1] = mf.starts[i]

\* two files of one record each; the count query after the first failed and
\* the second file was given the starting id of the first
C19_Witness ==
    /\ mf.pc = "done"
    /\ mf.ret = "True"
    /\ mf.paths = <<[exists |-> TRUE, data |-> <<LawRefShort>>],
                    [exists |-> TRUE, data |-> <<LawRefShort>>]>>
    /\ law_index0 = <<>>
    /\ Len(LawCounts) = 3
    /\ LawCounts[2].outcome = "fail"
    /\ mf.starts = <<0, 0>>
    /\ UploadedIds = <<0, 0>>

\* C20: add_multiple_law_files returns True if every file of json_file_paths
\* was processed successfully and False otherwise, False in particular when
\* a listed file does not exist.
C20_Original ==
    (mf.pc = "done") =>
        (mf.ret = "True" <=>
            /\ \A i \in 1..Len(mf.paths) : mf.paths[i].exists
            /\ ~(lf.pc = "done" /\ lf.ret = "False"))

\* C20, what the code does: it returns False exactly when a call of the
\* helper returned False; files that do not exist are passed over.
C20_FalseOnlyOnHelperFailure ==
    (mf.pc = "done") =>
        /\ mf.ret \in {"True", "False"}
        /\ mf.ret = "False" <=> (lf.pc = "done" /\ lf.ret = "False")
        /\ Len(mf.starts) <= Cardinality({i \in 1..Len(mf.paths) : mf.paths[i].exists})
        /\ mf.ret = "True" =>
                Len(mf.starts) = Cardinality({i \in 1..Len(mf.paths) : mf.paths[i].exists})

\* the only listed file does not exist: nothing was read or uploaded and the
\* call returned True
C20_Witness ==
    /\ mf.pc = "done"
    /\ mf.paths = <<[exists |-> FALSE]>>
    /\ mf.starts = <<>>
    /\ LawUploads = <<>>
    /\ mf.ret = "True"

\* C21: when add_law_references is called with start_index > 0, the id of the
\* first point written is the number of points the collection holds at that
\* time, and no point written has the id of a point that was already there.
C21_Original ==
    (lf.mode = "single" /\ lf.start_arg > 0) =>
        /\ UploadedIds /= <<>> => UploadedIds[1] = Cardinality(DOMAIN law_index0)
        /\ \A i \in 1..Len(UploadedIds) : UploadedIds[i] \notin DOMAIN law_index0

\* C21, what the code does: add_law_references never queries the collection,
\* and the first point it writes has the id start_index, the file index of
\* the record it resumes at, whatever the collection holds.
C21_FirstIdIsStartIndex ==
    (lf.mode = "single") =>
        /\ \A i \in 1..Len(law_calls) : law_calls[i].op /= "get_collection"
        /\ UploadedIds /= <<>> => UploadedIds[1] = lf.start_index

\* the collection holds the two chunks of record 0 at ids 0 and 1; the call
\* resumed at record 1 wrote that record at id 1, over the second chunk of
\* record 0, and the collection still has two points
C21_Witness ==
    /\ lf.pc = "done"
    /\ lf.mode = "single"
    /\ lf.ret = "True"
    /\ lf.start_arg = 1
    /\ lf.file = <<LawRefLong, LawRefShort>>
    /\ DOMAIN law_index0 = {0, 1}
    /\ law_index0[1].payload.chunk_index = 1
    /\ UploadedIds = <<1>>
    /\ DOMAIN law_index = {0, 1}
    /\ law_index[1].payload.law_text = <<"x">>

\* C23: every result of LawRAGPipeline.search_by_text has as content the
\* stored chunk_content of its point when that field is present and not
\* empty, and the full law_text exactly when chunk_content is absent or
\* empty; a payload without chunk_content, chunk_index, total_chunks and
\* is_chunked does not make the search fail: every point comes back, with
\* the defaults 0, 1 and False in its metadata.
C23_ChunkContentPreferred ==
    (spc = "done" /\ spipe = "law" /\ SearchSucceeded) =>
        /\ ~sout.exc
        /\ Len(sout.val) = Len(sraw)
        /\ \A i \in 1..Len(sout.val) :
            LET r == sout.val[i]
                stored == "chunk_content" \in DOMAIN r.payload /\ r.payload.chunk_content /= ""
            IN  /\ stored => r.content = r.payload.chunk_content
                /\ ~stored => r.content = r.payload.law_text
                /\ r.content = r.payload.law_text <=> ~stored
                /\ "chunk_index" \notin DOMAIN r.payload =>
                        r.metadata = [part_section |-> r.payload.part_section,
                                      chunk_index |-> 0, total_chunks |-> 1,
                                      is_chunked |-> FALSE]

\* a law search that returned a chunked point, a point stored before chunking
\* and a point with an empty chunk_content
C23_Witness ==
    /\ spc = "done"
    /\ spipe = "law"
    /\ SearchSucceeded
    /\ Len(sout.val) = 3
    /\ \E i \in 1..3 : sout.val[i].payload = LawPayloadChunk /\ sout.val[i].content = "chunk"
    /\ \E i \in 1..3 : sout.val[i].payload = LawPayloadLegacy /\ sout.val[i].content = "full"
    /\ \E i \in 1..3 : sout.val[i].payload = LawPayloadEmptyChunk /\ sout.val[i].content = "full"

-----------------------------------------------------------------------------
(* Specification SpecCollection: constructions, info queries and deletions *)
(* of the two pipelines, one after another                                 *)

Pipelines == {"case", "law"}

\* a collection before the run: absent, new, filled, or made by other hands
\* with another vector size
InitialCollections ==
    {NoCollection, NewCollection, [NewCollection EXCEPT !.points_count = 2],
     [NewCollection EXCEPT !.size = 768]}

InitCollection ==
    /\ qdrant \in [Pipelines -> InitialCollections]
    /\ qlog = <<>>
    /\ SearchOff
    /\ ChatOff
    /\ IngestOff
    /\ ChunkOff
    /\ LawOff

\* the operation done: the collection and the log move on
Performed(op, pipe, done) ==
    /\ qdrant' = [qdrant EXCEPT ![pipe] = done.coll]
    /\ qlog' = Append(qlog, [op |-> op, pipe |-> pipe, before |-> qdrant[pipe],
                             calls |-> done.calls, exc |-> done.exc, val |-> done.val])
    /\ UNCHANGED notCollVars

\* CaseRAGPipeline() / LawRAGPipeline(): the constructor's call of
\* _ensure_collection_exists
Construct ==
    /\ Len(qlog) < MaxOps
    /\ \E pipe \in Pipelines, check \in {"ok", "fail"},
          create \in {"ok", "fail", "fail_applied"} :
            Performed("construct", pipe, EnsureCollectionExists(qdrant[pipe], check, create))

CallGetCollectionInfo ==
    /\ Len(qlog) < MaxOps
    /\ \E pipe \in Pipelines, outcome \in {"ok", "fail"} :
            Performed("get_collection_info", pipe, CollectionInfo(pipe, qdrant[pipe], outcome))

CallDeleteCollection ==
    /\ Len(qlog) < MaxOps
    /\ \E pipe \in Pipelines, outcome \in {"ok", "fail", "fail_applied"} :
            Performed("delete_collection", pipe, DeleteCollection(qdrant[pipe], outcome))

NextCollection == Construct \/ CallGetCollectionInfo \/ CallDeleteCollection

SpecCollection == InitCollection /\ [][NextCollection]_vars

\* the client call of an operation failed
IndexCallFailed(entry) == \E i \in 1..Len(entry.calls) : entry.calls[i].outcome /= "ok"

\* C24: get_collection_info and delete_collection of either pipeline never
\* raise: when the index call fails get_collection_info returns the empty
\* mapping and delete_collection returns False.
C24_NeverRaise ==
    \A i \in 1..Len(qlog) :
        /\ qlog[i].op = "get_collection_info" =>
            /\ ~qlog[i].exc
            /\ IndexCallFailed(qlog[i]) => DOMAIN qlog[i].val = {}
        /\ qlog[i].op = "delete_collection" =>
            /\ ~qlog[i].exc
            /\ IndexCallFailed(qlog[i]) => qlog[i].val = "False"
            /\ ~IndexCallFailed(qlog[i]) => qlog[i].val = "True"

\* an info query and a deletion whose index calls failed, on a collection
\* that is there
C24_Witness ==
    /\ Len(qlog) = 2
    /\ qlog[1].op = "get_collection_info"
    /\ qlog[1].before.exists
    /\ qlog[1].calls = <<[call |-> "get_collection", outcome |-> "fail"]>>
    /\ DOMAIN qlog[1].val = {}
    /\ qlog[2].op = "delete_collection"
    /\ qlog[2].calls[1].outcome /= "ok"
    /\ qlog[2].val = "False"

\* the constructions so far, in order
Constructions == SelectSeq(qlog, LAMBDA entry : entry.op = "construct")

\* C25: _ensure_collection_exists is idempotent: a create-collection call is
\* issued only after the existence check reported the collection absent, so
\* constructing a pipeline again neither re-creates nor changes a collection
\* that exists and, nothing being deleted, a collection is created at most
\* once; a failure of the check or of the creation leaves the constructor as
\* an exception, after one attempt.
C25_EnsureIdempotent ==
    /\ \A i \in 1..Len(Constructions) :
        LET c == Constructions[i]
            creates == Cardinality({k \in 1..Len(c.calls) :
                                        c.calls[k].call = "create_collection"})
        IN  /\ c.calls[1].call = "collection_exists"
            /\ creates <= 1
            /\ Len(c.calls) = 1 + creates
            /\ creates = 1 <=> (c.calls[1].outcome = "ok" /\ ~c.before.exists)
            /\ c.exc <=> IndexCallFailed(c)
    /\ \A i \in 1..Len(qlog) :
        (qlog[i].op = "construct" /\ qlog[i].before.exists) =>
            (IF i = Len(qlog) THEN qdrant[qlog[i].pipe] ELSE
             IF qlog[i + 1].pipe = qlog[i].pipe THEN qlog[i + 1].before
             ELSE qlog[i].before) = qlog[i].before
    /\ (\A i \in 1..Len(qlog) : qlog[i].op /= "delete_collection") =>
        \A pipe \in Pipelines :
            Cardinality({i \in 1..Len(qlog) :
                /\ qlog[i].pipe = pipe
                /\ \E k \in 1..Len(qlog[i].calls) :
                        qlog[i].calls[k].call = "create_collection"
                        /\ qlog[i].calls[k].outcome /= "fail"}) <= 1

\* a pipeline constructed twice on a server without its collection: the
\* first construction created it, the second found it and created nothing
C25_Witness ==
    /\ Len(qlog) = 2
    /\ qlog[1].op = "construct"
    /\ qlog[2].op = "construct"
    /\ qlog[1].pipe = qlog[2].pipe
    /\ ~qlog[1].before.exists
    /\ Len(qlog[1].calls) = 2
    /\ ~qlog[1].exc
    /\ qlog[2].before = NewCollection
    /\ Len(qlog[2].calls) = 1
    /\ ~qlog[2].exc
    /\ qdrant[qlog[2].pipe] = NewCollection

-----------------------------------------------------------------------------
(* SpecCases: what a failed call of add_cases leaves behind *)

\* the ids of the batch the call is in
BatchIds == {ac.batch_start + k : k \in 0..(Len(BatchCases(ac)) - 1)}

\* C26: add_cases is not transactional: when the call fails in some batch,
\* the points of every batch uploaded before it are in the index as they were
\* uploaded, no call takes anything back, and when the failure came before
\* the upload call of the failing batch that batch added no point.
C26_NoRollback ==
    (ac.pc = "done" /\ ac.ret = "False") =>
        LET n == Len(calls)
        IN  /\ \A i \in 1..n : calls[i].op \in {"open", "embed_query", "upload_points"}
            /\ \A i \in 1..(n - 1) : calls[i].op = "upload_points" =>
                    \A j \in 1..Len(calls[i].points) :
                        LET point == calls[i].points[j]
                        IN  /\ point.id \in DOMAIN case_index
                            /\ case_index[point.id] =
                                    [vector |-> point.vector, payload |-> point.payload]
            /\ calls[n].op /= "upload_points" =>
                    /\ case_index = Upsert(index0, PointsOf(Uploads))
                    /\ \A id \in BatchIds :
                            /\ (id \in DOMAIN case_index) = (id \in DOMAIN index0)
                            /\ id \in DOMAIN index0 => case_index[id] = index0[id]

\* two batches uploaded, then the embedding of the third batch's case failed
C26_Witness ==
    /\ ac.pc = "done"
    /\ ac.ret = "False"
    /\ Len(ac.file) = 3
    /\ ac.batch_size = 1
    /\ ac.start_arg = 0
    /\ index0 /= <<>>
    /\ Len(Uploads) = 2
    /\ calls[Len(calls)].op = "embed_query"
    /\ outcomes[Len(outcomes)] = "fail"
    /\ DOMAIN case_index = {0, 1}
    /\ case_index[0].payload = CasePayloadOf(ac.file[1])
    /\ case_index[1].payload = CasePayloadOf(ac.file[2])

-----------------------------------------------------------------------------
(* SpecCases: a failed call of add_cases resumed by a second call *)

\* enough successful external calls to take any call to its end
AllOk == [i \in 1..(2 * MaxCases + 3) |-> "ok"]

\* the call failed in the batch it was in: an embedding or the upload of that
\* batch raised
FailedInBatch ==
    /\ ac.pc = "done"
    /\ ac.ret = "False"
    /\ calls /= <<>>
    /\ calls[Len(calls)].op \in {"embed_query", "upload_points"}
    /\ outcomes[Len(outcomes)] /= "ok"

\* the ids the index took from the call so far
WrittenIds ==
    UNION {{calls[i].points[j].id : j \in 1..Len(calls[i].points)} :
              i \in {k \in 1..Len(calls) : calls[k].op = "upload_points"
                                           /\ outcomes[k] /= "fail"}}

\* C28: when add_cases, started at index 0, fails in the batch that starts at
\* index b, a second call with start_index = b and any batch_size >= 1 that
\* succeeds leaves the index with the same points (id, vector, payload) as one
\* successful call from index 0; what the second call uploads again it
\* rewrites under the same id with the same payload.
C28_ResumeEquivalent ==
    (FailedInBatch /\ ac.start_arg = 0) =>
        \A batch_size \in 1..MaxBatch :
            LET resumed == Replay(CallAddCases(ac.file, batch_size, ac.batch_start,
                                               case_index), AllOk)
                single == Replay(CallAddCases(ac.file, ac.batch_size, 0, index0), AllOk)
            IN  /\ resumed.frame.pc = "done"
                /\ resumed.frame.ret = "True"
                /\ single.frame.ret = "True"
                /\ resumed.index = single.index
                /\ \A id \in WrittenIds : resumed.index[id] = case_index[id]

\* a three-record file in batches of two: the first batch uploaded, the upload
\* of the second failed after reaching the index; the second call, in batches
\* of one from index 2, rewrites point 2 and returns True
C28_Witness ==
    /\ FailedInBatch
    /\ ac.start_arg = 0
    /\ Len(ac.file) = 3
    /\ ac.batch_size = 2
    /\ ac.batch_start = 2
    /\ outcomes[Len(outcomes)] = "fail_applied"
    /\ WrittenIds = {0, 1, 2}
    /\ index0 /= <<>>
    /\ LET resumed == Replay(CallAddCases(ac.file, 1, 2, case_index), AllOk)
       IN  /\ resumed.frame.ret = "True"
           /\ Len(resumed.calls) = 3
           /\ resumed.calls[3].points[1].id = 2
           /\ DOMAIN resumed.index = {0, 1, 2}

\* the same failure left unapplied: the second call adds the missing point
C28_WitnessMissing ==
    /\ FailedInBatch
    /\ ac.start_arg = 0
    /\ Len(ac.file) = 3
    /\ ac.batch_size = 2
    /\ ac.batch_start = 2
    /\ DOMAIN case_index = {0, 1}
    /\ DOMAIN Replay(CallAddCases(ac.file, 2, 2, case_index), AllOk).index = {0, 1, 2}

-----------------------------------------------------------------------------
(* SpecLawFile: the batches of the helper in which every item was skipped *)

\* the first indexes of the batches of the helper's file
LawBatchStarts == {b \in 0..(Len(lf.file) - 1) : b % lf.batch_size = 0}

\* the batches of which a chunk was embedded
BatchesWithPoints ==
    {b \in LawBatchStarts :
        \E i \in 1..Len(LawEmbedded) :
            LawEmbedded[i].record \in b..(b + lf.batch_size - 1)}

\* C30: in _add_law_file_with_custom_ids every upload call carries at least
\* one point: a batch of which no point was built issues no upload call, the
\* batches after it are processed, and the file still reports success (no
\* file read or upload failing, no record handler raising).
C30_UploadOnlyPoints ==
    lf.mode = "custom" =>
        /\ \A k \in 1..Len(LawUploads) : LawUploads[k].ids /= <<>>
        /\ lf.pc = "upload" => lf.points /= <<>>
        /\ Len(LawUploads) <= Cardinality(BatchesWithPoints)
        /\ (lf.pc = "done" /\ lf.ret = "True") =>
                Len(LawUploads) = Cardinality(BatchesWithPoints)
        /\ (/\ lf.pc = "done" /\ NoBatchFailure
            /\ \A i \in 1..Len(lf.file) : ~RecordExceptRaises(lf.file[i])) =>
                /\ lf.ret = "True"
                /\ WholeFileProcessed

\* two batches of one record: the only chunk of the first failed to embed, so
\* that batch was not uploaded; the second batch was, and the helper returned
\* True
C30_Witness ==
    /\ lf.pc = "done"
    /\ lf.mode = "custom"
    /\ lf.file = <<LawRefShort, LawRefShort>>
    /\ lf.batch_size = 1
    /\ lf.start_point_id = 1
    /\ Len(law_calls) = 4
    /\ law_calls[2].op = "embed_query"
    /\ law_calls[2].outcome = "fail"
    /\ law_calls[3].op = "embed_query"
    /\ law_calls[3].record = 1
    /\ LawUploads = <<[op |-> "upload_points", outcome |-> "ok", ids |-> <<2>>,
                       skipped_count |-> 0]>>
    /\ lf.ret = "True"

\* a batch holding only a record whose chunking raises: no upload for it
C30_WitnessRecord ==
    /\ lf.pc = "done"
    /\ lf.mode = "custom"
    /\ lf.batch_size = 1
    /\ Len(lf.file) = 2
    /\ law_chunks[lf.file[1]].exc
    /\ ~RecordExceptRaises(lf.file[1])
    /\ \A i \in 1..Len(law_calls) : law_calls[i].outcome = "ok"
    /\ Len(LawUploads) = 1
    /\ lf.ret = "True"

-----------------------------------------------------------------------------
(* SpecLawFiles: the file at which add_multiple_law_files gives up *)

\* the ids that reached the collection in upload calls
AppliedIds ==
    UNION {{LawUploads[k].ids[j] : j \in 1..Len(LawUploads[k].ids)} :
              k \in {u \in 1..Len(LawUploads) : LawUploads[u].outcome /= "fail"}}

\* the files opened so far
LawOpens == SelectSeq(law_calls, LAMBDA c : c.op = "open")

\* C29: add_multiple_law_files stops at the first file whose processing
\* reports failure: it returns False at once, no later file is read, embedded
\* or uploaded, and the points uploaded from earlier files and batches stay
\* in the collection.
C29_StopsAtFirstFailure ==
    /\ \A i \in 1..Len(law_calls) :
            (law_calls[i].op \in {"open", "upload_points"} /\ law_calls[i].outcome /= "ok")
                => i = Len(law_calls)
    /\ (lf.pc = "done" /\ lf.ret = "False") =>
            /\ mf.pc \in {"helper", "done"}
            /\ mf.pc = "done" => mf.ret = "False"
            /\ law_calls[Len(law_calls)].op \in {"open", "upload_points"}
            /\ Len(LawOpens) = Cardinality({i \in 1..mf.file_idx : mf.paths[i].exists})
    /\ (mf.pc = "done" /\ mf.ret = "False") => (lf.pc = "done" /\ lf.ret = "False")
    /\ DOMAIN law_index = DOMAIN law_index0 \cup AppliedIds

\* two files of one record: the first was uploaded and counted, the upload of
\* the second failed; the call returned False and the collection keeps the
\* point of the first file beside the point it held before
C29_Witness ==
    /\ mf.pc = "done"
    /\ mf.ret = "False"
    /\ Len(mf.paths) = 2
    /\ mf.file_idx = 2
    /\ \A i \in 1..2 : mf.paths[i].exists /\ Len(mf.paths[i].data) = 1
    /\ Len(LawUploads) = 2
    /\ LawUploads[1].outcome = "ok"
    /\ LawUploads[2].outcome = "fail"
    /\ law_index0 = <<>>
    /\ LawUploads[1].ids = <<0>>
    /\ DOMAIN law_index = {0}
    /\ law_index[0].payload = LawPayloadOf(law_chunks[mf.paths[1].data[1]].val[1],
                                           mf.paths[1].data[1])

\* the first of two files failed to open: the second was never opened
C29_WitnessLaterFile ==
    /\ mf.pc = "done"
    /\ mf.ret = "False"
    /\ Len(mf.paths) = 2
    /\ mf.file_idx = 1
    /\ mf.paths[2].exists
    /\ Len(LawOpens) = 1
    /\ LawEmbedded = <<>>
    /\ law_index = law_index0

-----------------------------------------------------------------------------
(* Specification SpecChatLive: one chat request, every step taken in the end *)

\* the workflow and the endpoint run each step they have reached
SpecChatLive == SpecChat /\ WF_vars(NextChat)

\* the calls of a request in the order the code makes them
StepOrder ==
    <<"CaseRAGPipeline()", "case.search_by_text", "LawRAGPipeline()",
      "law.search_by_text", "llm">>

Rank(step) == CHOOSE k \in 1..Len(StepOrder) : StepOrder[k] = step

Traced(step) == \E i \in 1..Len(trace) : trace[i] = step

\* every call made at most once and in the order of StepOrder; the case path
\* over before the law path begins, both over before llm_node, llm_node run
\* once when the end node is reached; no exception has left the workflow, so
\* the endpoint is reached from the end node only
StepsInOrder ==
    /\ \A i, j \in 1..Len(trace) : i < j => Rank(trace[i]) < Rank(trace[j])
    /\ pc \in {"rag_law", "llm", "end", "respond", "done"} =>
            (request.is_case_rag <=> Traced("CaseRAGPipeline()"))
    /\ pc \in {"recv", "rag_case"} => ~Traced("LawRAGPipeline()")
    /\ pc \in {"llm", "end", "respond", "done"} =>
            (request.is_law_rag <=> Traced("LawRAGPipeline()"))
    /\ pc \in {"recv", "rag_case", "rag_law", "llm"} =>
            /\ ~Traced("llm")
            /\ llm_sent = <<>>
            /\ Len(messages) <= 1
    /\ pc \in {"end", "respond", "done"} =>
            /\ ~escaped
            /\ Len(messages) = 2
            /\ messages[2].type = "ai"
            /\ Len(llm_sent) <= 1
            /\ Traced("llm") <=> Len(llm_sent) = 1
    /\ pc = "done" => http = [status |-> 200, response |-> messages[2].content]

C27_WitnessNoModel ==
    /\ pc = "done"
    /\ request.llm_model_id = "llama"
    /\ request.is_case_rag
    /\ llm_sent = <<>>
    /\ ~Traced("llm")
    /\ http.status = 200
    /\ http.response[1] = "I apologize"

-----------------------------------------------------------------------------
(* Specification SpecChats: chat requests served one after another by the *)
(* one workflow instance                                                   *)

\* chat() called again: what the invocation before left in its state is
\* still there; the records of the request before are put away
ChatNext ==
    /\ pc = "done"
    /\ served + 1 < MaxRequests
    /\ pc' = "recv"
    /\ served' = served + 1
    /\ case_path' = "skipped"
    /\ law_path' = "skipped"
    /\ trace' = <<>>
    /\ llm_sent' = <<>>
    /\ llm_path' = "none"
    /\ llm_outcome' = [kind |-> "none"]
    /\ escaped' = FALSE
    /\ http' = [status |-> 0, response |-> <<>>]
    /\ UNCHANGED <<request, messages, rag_context, case_results, law_results, notChatVars>>

NextChats == NextChat \/ ChatNext

SpecChats == InitChat /\ [][NextChats]_vars

\* the merged context the results of this request's own searches give
OwnContext ==
    Map(SubSeq(case_results, 1, Formatted(case_results)), CaseEntry)
    \o Map(SubSeq(law_results, 1, Formatted(law_results)), LawEntry)

C22_WitnessLeftOver ==
    /\ served = 1
    /\ pc = "recv"
    /\ request.message = "q1"
    /\ Len(messages) = 2
    /\ Len(rag_context) = 2

=============================================================================
